---- MODULE Spec2Model ----
(***************************************************************************)
(* smartcommit: the interactive session (internal/tui), the provider       *)
(* selection (internal/ai), the configuration record (internal/config) and *)
(* the git accessor (internal/git), as one state machine.                  *)
(*                                                                         *)
(* Texts (the text area, credentials, URLs, model names, answers, commit   *)
(* messages) are sequences of pieces, so that trimming, concatenation and  *)
(* URL normalisation are computed as the code computes them.  A piece is   *)
(* one character, or a default value of the source written as one piece    *)
(* (its last character is neither white space nor "/").  The staged diff   *)
(* is represented by its length: the output of `git diff --cached` is      *)
(* blank exactly when it is empty.  The history is represented by the      *)
(* number of log entries in it.                                            *)
(*                                                                         *)
(* The Bubble Tea runtime is modelled by two bags: cmds holds the commands *)
(* Update (or Init) returned and whose goroutine is still running, msgs    *)
(* the messages of finished prerequisite checks not yet handed to Update.  *)
(***************************************************************************)
EXTENDS Integers, Sequences, FiniteSets, Bags, TLC

VARIABLES
    State,            \* Model.State
    SetupStep,        \* Model.SetupStep
    SelectedProvider, \* Model.SelectedProvider
    Err,              \* Model.Err (NoErr is nil)
    Config,           \* Model.Config (*config.Config, NilConfig is nil)
    AIClient,         \* Model.AIClient (NilClient is nil)
    Diff,             \* Model.Diff (its length)
    History,          \* Model.History (the number of log entries in it)
    HistoryCtx,       \* Model.HistoryCtx
    Questions,        \* Model.Questions
    Answers,          \* Model.Answers (map question -> answer)
    CurrentQIdx,      \* Model.CurrentQIdx (0-based, as in the source)
    CommitMsg,        \* Model.CommitMsg
    TextArea,         \* Model.TextArea.Value()
    disk,             \* the file ~/.config/smartcommit/config.json
    envKey,           \* os.Getenv("OPENAI_API_KEY")
    Width,            \* Model.Width
    Height,           \* Model.Height
    prompt,           \* the user prompt of the last request for a message
    repo,             \* the working tree, as git reports it
    cmds,             \* commands dispatched, goroutine not yet finished
    msgs,             \* messages produced, not yet delivered to Update
    status,           \* "running", "quit" (tea.Quit) or "crashed" (panic)
    checks            \* prerequisite checks dispatched so far

vars == <<State, SetupStep, SelectedProvider, Err, Config, AIClient, Diff,
          History, HistoryCtx, Questions, Answers, CurrentQIdx, CommitMsg,
          TextArea, disk, envKey,
          Width, Height, prompt, repo, cmds, msgs, status, checks>>

modelVars == <<State, SetupStep, SelectedProvider, Err, Config, AIClient, Diff,
               History, HistoryCtx, Questions, Answers, CurrentQIdx, CommitMsg,
               TextArea>>

-----------------------------------------------------------------------------
(* Bounds *)

\* Prerequisite checks one session dispatches (the first one included).
MaxChecks == 3

\* Characters of a base URL after the host and port.
MaxURLLen == 5

-----------------------------------------------------------------------------
(* Session states and setup steps: model.go 22-45 *)

StateLoading == "Loading"
StateAnalysis == "Analysis"
StateHistoryAnalysis == "HistoryAnalysis"
StateQuestioning == "Questioning"
StateReview == "Review"
StateCommit == "Commit"
StateError == "Error"
StateSuccess == "Success"
StateSetup == "Setup"
StateNoRepo == "NoRepo"
StateWelcome == "Welcome"
StateDiffTooLarge == "DiffTooLarge"

SetupStepProvider == "Provider"
SetupStepOpenAIKey == "OpenAIKey"
SetupStepConfirmOpenAIKey == "ConfirmOpenAIKey"
SetupStepOllamaURL == "OllamaURL"
SetupStepOllamaModel == "OllamaModel"

ProviderOpenAI == "openai"
ProviderOllama == "ollama"

-----------------------------------------------------------------------------
(* Texts *)

Whitespace == {" ", "\n", "\t", "\r"}

RECURSIVE TrimLeft(_)
TrimLeft(s) ==
    IF s # <<>> /\ Head(s) \in Whitespace THEN TrimLeft(Tail(s)) ELSE s

RECURSIVE TrimRight(_)
TrimRight(s) ==
    IF s # <<>> /\ s[Len(s)] \in Whitespace
    THEN TrimRight(SubSeq(s, 1, Len(s) - 1))
    ELSE s

\* The faulty variant that submits the text as typed.
TrimSpace_Untrimmed(s) == s

\* strings.TrimSpace
TrimSpace(s) == TrimRight(TrimLeft(s))

\* strings.ToLower on a key name
ToLower(k) ==
    CASE k = "Y" -> "y"
      [] k = "N" -> "n"
      [] k = "C" -> "c"
      [] OTHER -> k

-----------------------------------------------------------------------------
(* The configuration record: config.go *)

NoErr == "<nil>"
ErrLoad == "config: cannot read or parse config.json"
ErrSave == "config: cannot write config.json"
ErrNoStaged == "no staged changes found"
ErrStagedDiff == "failed to get staged diff"
ErrHistory == "failed to get git history"
ErrUnknownProvider == "unknown provider"
ErrBackend == "backend request failed"
ErrParse == "failed to parse JSON response"
ErrCommit == "git commit failed"

\* config.Config behind a pointer; nil marks the nil pointer.
NilConfig ==
    [nil |-> TRUE, Provider |-> "", OpenAIAPIKey |-> <<>>,
     OllamaModel |-> <<>>, OllamaURL |-> <<>>]

MkConfig(provider, key, model, url) ==
    [nil |-> FALSE, Provider |-> provider, OpenAIAPIKey |-> key,
     OllamaModel |-> model, OllamaURL |-> url]

\* "llama3", the model name Load falls back to
DefaultModel == <<"llama3">>
\* "llama3.1", the model name the setup flow proposes
SetupDefaultModel == <<"llama3.1">>
\* "http://localhost:11434"
DefaultURL == <<"http://localhost:11434">>

\* A byte that is not valid UTF-8, and U+FFFD which encoding/json writes for it.
InvalidByte == "\\xff"
ReplacementChar == "\\ufffd"

\* json.Marshal of a Go string: coerced to valid UTF-8.
MarshalString(s) ==
    [i \in DOMAIN s |-> IF s[i] = InvalidByte THEN ReplacementChar ELSE s[i]]

\* The file is absent.
NoFile ==
    [exists |-> FALSE, provider |-> "", openai_api_key |-> <<>>,
     ollama_model |-> <<>>, ollama_url |-> <<>>]

\* json.MarshalIndent(c): the JSON object written to config.json.
Marshal(c) ==
    [exists |-> TRUE,
     provider |-> c.Provider,
     openai_api_key |-> MarshalString(c.OpenAIAPIKey),
     ollama_model |-> MarshalString(c.OllamaModel),
     ollama_url |-> MarshalString(c.OllamaURL)]

\* The faulty variant that does not read the model name.
Unmarshal_WithoutModel(d) ==
    MkConfig(d.provider, d.openai_api_key, <<>>, d.ollama_url)

\* json.Unmarshal(data, &cfg)
Unmarshal(d) ==
    MkConfig(d.provider, d.openai_api_key, d.ollama_model, d.ollama_url)

\* The faulty variant whose defaults leave the credential empty.
Load_NoEnv(d, env) ==
    IF d.exists
    THEN Unmarshal(d)
    ELSE MkConfig(ProviderOpenAI, <<>>, DefaultModel, DefaultURL)

\* config.Load, when the path can be resolved and the file read and parsed.
Load(d, env) ==
    IF d.exists
    THEN Unmarshal(d)
    ELSE MkConfig(ProviderOpenAI, env, DefaultModel, DefaultURL)

\* (*Config).Save: the file after the call; a failed write leaves it as it was.
Save(c, d, saveOk) == IF saveOk THEN Marshal(c) ELSE d

-----------------------------------------------------------------------------
(* Provider clients: internal/ai *)

NilClient == [kind |-> "nil", apiKey |-> <<>>, baseURL |-> <<>>, model |-> <<>>]

NewOpenAIClient(apiKey) ==
    [kind |-> "openai", apiKey |-> apiKey, baseURL |-> <<>>, model |-> <<>>]

\* The base URL NewOllamaClient hands to the OpenAI client.
NormalizeBaseURL(baseURL) ==
    LET slashed ==
            IF baseURL # <<>> /\ baseURL[Len(baseURL)] # "/"
            THEN Append(baseURL, "/")
            ELSE baseURL
    IN  IF Len(slashed) < 3
           \/ SubSeq(slashed, Len(slashed) - 2, Len(slashed)) # <<"v", "1", "/">>
        THEN slashed \o <<"v", "1", "/">>
        ELSE slashed

NewOllamaClient(baseURL, model) ==
    [kind |-> "ollama", apiKey |-> <<"ollama">>,
     baseURL |-> NormalizeBaseURL(baseURL), model |-> model]

\* The faulty variant that turns every unknown provider away.
NewClient_UnknownFails(cfg) ==
    CASE cfg.Provider = ProviderOpenAI ->
            [client |-> NewOpenAIClient(cfg.OpenAIAPIKey), err |-> NoErr]
      [] cfg.Provider = ProviderOllama ->
            [client |-> NewOllamaClient(cfg.OllamaURL, cfg.OllamaModel),
             err |-> NoErr]
      [] OTHER -> [client |-> NilClient, err |-> ErrUnknownProvider]

\* ai.NewClient: [client, err]
NewClient(cfg) ==
    CASE cfg.Provider = ProviderOpenAI ->
            [client |-> NewOpenAIClient(cfg.OpenAIAPIKey), err |-> NoErr]
      [] cfg.Provider = ProviderOllama ->
            [client |-> NewOllamaClient(cfg.OllamaURL, cfg.OllamaModel),
             err |-> NoErr]
      [] OTHER ->
            IF cfg.OpenAIAPIKey # <<>>
            THEN [client |-> NewOpenAIClient(cfg.OpenAIAPIKey), err |-> NoErr]
            ELSE [client |-> NilClient, err |-> ErrUnknownProvider]

\* What Chat.Completions.New hands back: err says the request failed; else
\* choices holds the content of each choice of the response body.
Completion(err, choices) == [err |-> err, choices |-> choices]

\* The content of a choice: text that is not JSON, or a JSON object with the
\* members named in has, whose values are those of value.
Content(json, has, value) == [json |-> json, has |-> has, value |-> value]

\* The members of the three response objects.
BlankValue ==
    [questions |-> <<>>, subject |-> <<>>, body |-> <<>>,
     is_relevant |-> FALSE, key_context |-> <<>>]

\* json.Unmarshal into QuestionsResponse: a member the object lacks leaves
\* its field at the zero value.
QuestionsResponse(content) ==
    [Questions |-> IF "questions" \in content.has
                   THEN content.value.questions ELSE <<>>]

\* json.Unmarshal into CommitMessageResponse
CommitMessageResponse(content) ==
    [Subject |-> IF "subject" \in content.has
                 THEN content.value.subject ELSE <<>>,
     Body |-> IF "body" \in content.has THEN content.value.body ELSE <<>>]

\* json.Unmarshal into HistoryAnalysisResponse
HistoryAnalysisResponse(content) ==
    [IsRelevant |-> IF "is_relevant" \in content.has
                    THEN content.value.is_relevant ELSE FALSE,
     KeyContext |-> IF "key_context" \in content.has
                    THEN content.value.key_context ELSE <<>>]

\* The faulty variant that trims the draft.
FormatCommitMessage_Trimmed(subject, body) ==
    TrimSpace(subject \o <<"\n", "\n">> \o body)

\* fmt.Sprintf("%s\n\n%s", result.Subject, result.Body)
FormatCommitMessage(subject, body) == subject \o <<"\n", "\n">> \o body

\* The outcome of a provider operation: it panics, or returns err, or value.
Outcome(panic, err, value) == [panic |-> panic, err |-> err, value |-> value]

\* GenerateQuestions, GenerateCommitMessage and AnalyzeHistory of either
\* client, from the call to json.Unmarshal: the value is the content that
\* parsed.
ProviderCall(resp) ==
    IF resp.err THEN Outcome(FALSE, ErrBackend, <<>>)
    ELSE IF resp.choices = <<>>
    THEN \* resp.Choices[0]: index out of range
         Outcome(TRUE, NoErr, <<>>)
    ELSE IF ~resp.choices[1].json THEN Outcome(FALSE, ErrParse, <<>>)
    ELSE Outcome(FALSE, NoErr, resp.choices[1])

\* The call went through and its content parsed.
Parsed(r) == ~r.panic /\ r.err = NoErr

GenerateQuestions(resp) ==
    LET r == ProviderCall(resp)
    IN  IF Parsed(r)
        THEN Outcome(FALSE, NoErr, QuestionsResponse(r.value).Questions)
        ELSE r

GenerateCommitMessage(resp) ==
    LET r == ProviderCall(resp)
    IN  IF Parsed(r)
        THEN Outcome(FALSE, NoErr,
                     FormatCommitMessage(CommitMessageResponse(r.value).Subject,
                                         CommitMessageResponse(r.value).Body))
        ELSE r

AnalyzeHistory(resp) ==
    LET r == ProviderCall(resp)
    IN  IF Parsed(r)
        THEN Outcome(FALSE, NoErr, HistoryAnalysisResponse(r.value))
        ELSE r

-----------------------------------------------------------------------------
(* Messages and commands: model.go 466-600 *)

\* The threshold of checkPrerequisitesCmd.
DiffLimit == 40000
\* The number of log entries checkPrerequisitesCmd asks for.
HistoryCount == 10

BlankMsg ==
    [type |-> "", err |-> NoErr, Config |-> NilConfig, Diff |-> 0,
     History |-> 0, KeyContext |-> <<>>, Questions |-> <<>>,
     Message |-> <<>>]

errMsg(e) == [BlankMsg EXCEPT !.type = "errMsg", !.err = e]
diffTooLargeMsg == [BlankMsg EXCEPT !.type = "diffTooLargeMsg"]
prerequisitesCheckedMsg(cfg, diff, history) ==
    [BlankMsg EXCEPT !.type = "prerequisitesCheckedMsg", !.Config = cfg,
                     !.Diff = diff, !.History = history]
setupRequiredMsg(cfg) ==
    [BlankMsg EXCEPT !.type = "setupRequiredMsg", !.Config = cfg]
noRepoMsg == [BlankMsg EXCEPT !.type = "noRepoMsg"]
historyAnalysisResultMsg(kc) ==
    [BlankMsg EXCEPT !.type = "historyAnalysisResultMsg", !.KeyContext = kc]
analysisResultMsg(qs) ==
    [BlankMsg EXCEPT !.type = "analysisResultMsg", !.Questions = qs]
commitMsgGeneratedMsg(text) ==
    [BlankMsg EXCEPT !.type = "commitMsgGeneratedMsg", !.Message = text]
commitSuccessMsg == [BlankMsg EXCEPT !.type = "commitSuccessMsg"]

\* No external process.
NoExec == [args |-> <<>>, message |-> <<>>]

\* The faulty variant that always hands the message to git.
CommitCmd_AlwaysPrefill(message) ==
    [args |-> <<"commit", "-e", "-m">>, message |-> message]

\* git.CommitCmd: the git process to run; without a message git opens the
\* editor on an empty draft, with one the editor opens on the message.
CommitCmd(message) ==
    IF message = <<>>
    THEN [args |-> <<"commit">>, message |-> <<>>]
    ELSE [args |-> <<"commit", "-e", "-m">>, message |-> message]

BlankCmd ==
    [name |-> "", client |-> NilClient, diff |-> 0, history |-> 0,
     historyCtx |-> <<>>, message |-> <<>>, exec |-> NoExec, err |-> NoErr]

checkPrerequisites == [BlankCmd EXCEPT !.name = "checkPrerequisitesCmd"]
analyzeHistoryCmd(client, diff, history) ==
    [BlankCmd EXCEPT !.name = "analyzeHistoryCmd", !.client = client,
                     !.diff = diff, !.history = history]
analyzeChangesCmd(client, diff, history) ==
    [BlankCmd EXCEPT !.name = "analyzeChangesCmd", !.client = client,
                     !.diff = diff, !.history = history]
\* answers is a Go map: the closure holds a reference, read when it runs.
generateCommitMsgCmd(client, diff, history, historyCtx) ==
    [BlankCmd EXCEPT !.name = "generateCommitMsgCmd", !.client = client,
                     !.diff = diff, !.history = history,
                     !.historyCtx = historyCtx]

\* strings.Join(elems, sep)
RECURSIVE Join(_, _)
Join(elems, sep) ==
    IF elems = <<>> THEN <<>>
    ELSE IF Len(elems) = 1 THEN <<elems[1]>>
    ELSE <<elems[1], sep>> \o Join(Tail(elems), sep)

\* fullHistoryContext of generateCommitMsgCmd: the history text, and what
\* is appended to it.
FullHistoryContext(history, historyCtx) ==
    [history |-> history,
     appended |-> IF Len(historyCtx) > 0
                  THEN <<"\n\nKey Context from History:\n- ">>
                           \o Join(historyCtx, "\n- ")
                  ELSE <<>>]

\* The arguments the closure of generateCommitMsgCmd hands to
\* GenerateCommitMessage; answers is the map as it is when the closure runs.
GenerateCommitMsgArgs(c, answers) ==
    [diff |-> c.diff,
     history |-> FullHistoryContext(c.history, c.historyCtx),
     answers |-> answers]

\* No request for a message has been built.
NoPrompt == [built |-> FALSE, diff |-> 0,
             history |-> [history |-> 0, appended |-> <<>>], qaPairs |-> <<>>]

\* The orders in which `for q, a := range answers` can visit the map: Go
\* leaves the iteration order of a map unspecified and randomises it, so
\* every enumeration of the keys is one.
RangeOrders(answers) ==
    {order \in [1..Cardinality(DOMAIN answers) -> DOMAIN answers] :
        \A q \in DOMAIN answers : \E i \in DOMAIN order : order[i] = q}

\* qaPairs += fmt.Sprintf("Q: %s\nA: %s\n", q, a), in the order of the range
RECURSIVE QAPairs(_, _)
QAPairs(answers, order) ==
    IF order = <<>> THEN <<>>
    ELSE <<"Q: ", Head(order), "\nA: ">> \o answers[Head(order)] \o <<"\n">>
             \o QAPairs(answers, Tail(order))

\* userPrompt of GenerateCommitMessage: the diff, the history and the
\* pairs, in the places the format string gives them.
UserPrompt(args, order) ==
    [built |-> TRUE, diff |-> args.diff, history |-> args.history,
     qaPairs |-> QAPairs(args.answers, order)]

\* The faulty variant that commits with the message as it is.
commitCmd_NoEditor(text) ==
    [BlankCmd EXCEPT !.name = "commitCmd", !.message = text,
                     !.exec = [args |-> <<"commit", "-m">>, message |-> text]]

commitCmd(text) ==
    [BlankCmd EXCEPT !.name = "commitCmd", !.message = text,
                     !.exec = CommitCmd(text)]
\* func() tea.Msg { return errMsg(err) }
errCmd(e) == [BlankCmd EXCEPT !.name = "errCmd", !.err = e]

BackendCmds == {"analyzeHistoryCmd", "analyzeChangesCmd", "generateCommitMsgCmd"}

-----------------------------------------------------------------------------
(* The prerequisite check: model.go 498-555 *)

\* The faulty variant that asks for setup whatever the environment holds.
NeedsSetup_IgnoresEnv(cfg, env) ==
    \/ cfg.Provider = ""
    \/ cfg.Provider = ProviderOpenAI /\ cfg.OpenAIAPIKey = <<>>
    \/ cfg.Provider = ProviderOllama
       /\ (cfg.OllamaURL = <<>> \/ cfg.OllamaModel = <<>>)

\* The provider-specific requirement of checkPrerequisitesCmd, after the
\* environment fallback has filled in the credential.
NeedsSetup(cfg, env) ==
    \/ cfg.Provider = ""
    \/ cfg.Provider = ProviderOpenAI /\ cfg.OpenAIAPIKey = <<>> /\ env = <<>>
    \/ cfg.Provider = ProviderOllama
       /\ (cfg.OllamaURL = <<>> \/ cfg.OllamaModel = <<>>)

\* The branch that copies the environment credential into the record.
UsesEnvKey(cfg, env) ==
    cfg.Provider = ProviderOpenAI /\ cfg.OpenAIAPIKey = <<>> /\ env # <<>>

\* What the check sees of the working tree: git.IsRepo, git.GetStagedDiff,
\* git.GetRecentHistory.
RepoObs(isRepo, diffOk, diff, histOk, commits) ==
    [isRepo |-> isRepo, diffOk |-> diffOk, diff |-> diff, histOk |-> histOk,
     commits |-> commits]

\* git.GetRecentHistory(n): the entries of git log -n, the newest n commits.
GetRecentHistory(n, tree) == IF tree.commits < n THEN tree.commits ELSE n

\* The faulty variant that also turns away a diff of exactly the limit.
ExceedsLimit_AtLeast(n) == n >= DiffLimit

\* len(diff) > 40000
ExceedsLimit(n) == n > DiffLimit

\* checkPrerequisitesCmd: the message it returns and the file it leaves.
checkPrerequisitesCmd(d, env, loadOk, saveOk, tree) ==
    IF ~loadOk THEN [msg |-> errMsg(ErrLoad), disk |-> d]
    ELSE
    LET loaded == Load(d, env)
        cfg == IF UsesEnvKey(loaded, env)
               THEN [loaded EXCEPT !.OpenAIAPIKey = env]
               ELSE loaded
        d2 == IF UsesEnvKey(loaded, env) THEN Save(cfg, d, saveOk) ELSE d
        msg ==
            CASE NeedsSetup(loaded, env) -> setupRequiredMsg(cfg)
              [] ~NeedsSetup(loaded, env) /\ ~tree.isRepo -> noRepoMsg
              [] OTHER ->
                    IF ~tree.diffOk THEN errMsg(ErrStagedDiff)
                    ELSE IF tree.diff = 0 THEN errMsg(ErrNoStaged)
                    ELSE IF ExceedsLimit(tree.diff) THEN diffTooLargeMsg
                    ELSE IF ~tree.histOk THEN errMsg(ErrHistory)
                    ELSE prerequisitesCheckedMsg(
                             cfg, tree.diff, GetRecentHistory(HistoryCount, tree))
    IN  [msg |-> msg, disk |-> d2]

-----------------------------------------------------------------------------
(* Inputs *)

\* Key presses, by tea.KeyMsg.String().
Keys == {"ctrl+c", "q", "enter", "1", "2", "c", "m", "y", "n"}
\* The keys that type their character into a focused text area.
Runes == Keys \ {"ctrl+c", "enter"}

\* The keys pressed on each screen: the keys the screen's handler tells
\* apart, "q" as the ordinary character where text is typed, and one key
\* the screen has no use for.
ScreenKeys(state, step) ==
    CASE state = StateQuestioning -> {"ctrl+c", "enter", "q"}
      [] state = StateSetup /\ step = SetupStepProvider ->
            {"ctrl+c", "1", "2", "q"}
      [] state = StateSetup /\ step = SetupStepConfirmOpenAIKey ->
            {"ctrl+c", "y", "enter", "n", "q"}
      [] state = StateSetup /\ step \notin {SetupStepProvider,
                                            SetupStepConfirmOpenAIKey} ->
            {"ctrl+c", "enter", "q"}
      [] state = StateWelcome -> {"ctrl+c", "q", "enter", "1", "2", "c", "m"}
      [] state = StateDiffTooLarge -> {"ctrl+c", "q", "enter", "m", "1"}
      [] OTHER -> {"ctrl+c", "q", "enter"}

\* The window NewModel assumes until the terminal reports its size.
DefaultWidth == 80
DefaultHeight == 24
\* Sizes the terminal reports: that one, and a larger window.
WindowSizes == {<<DefaultWidth, DefaultHeight>>, <<100, 30>>}

\* The texts typed into the text area: a line break first, then a letter,
\* so that what is submitted differs from what was typed.
TypedTexts == {<<>>, <<"\n">>, <<"\n", "q">>}

\* OPENAI_API_KEY: unset, or a credential.
EnvKeys == {<<>>, <<"s", "k">>}

\* config.json at start: absent, or a record written by an earlier run or by
\* hand.
InitialDisks ==
    {NoFile,
     Marshal(MkConfig("", <<>>, DefaultModel, DefaultURL)),
     Marshal(MkConfig(ProviderOpenAI, <<>>, DefaultModel, DefaultURL)),
     Marshal(MkConfig(ProviderOpenAI, <<"f">>, DefaultModel, DefaultURL)),
     Marshal(MkConfig(ProviderOllama, <<>>, DefaultModel, DefaultURL)),
     Marshal(MkConfig(ProviderOllama, <<>>, <<>>, DefaultURL)),
     Marshal(MkConfig(ProviderOllama, <<>>, DefaultModel, <<>>)),
     Marshal(MkConfig("other", <<>>, DefaultModel, DefaultURL)),
     Marshal(MkConfig("other", <<"f">>, DefaultModel, DefaultURL))}

\* Lengths of the staged diff.
DiffLens == {0, DiffLimit, DiffLimit + 1}
\* Commits on the branch (git log fails on a branch without commits).
Commits == {HistoryCount + 1}
\* Working trees the check can meet: none, one git diff fails in, one with
\* a staged diff of each length, and one without commits (git log fails).
Repos ==
    {RepoObs(FALSE, FALSE, 0, FALSE, 0), RepoObs(TRUE, FALSE, 0, FALSE, 0)}
    \cup {RepoObs(TRUE, TRUE, n, TRUE, h) : n \in DiffLens, h \in Commits}
    \cup {RepoObs(TRUE, TRUE, DiffLimit, FALSE, 0)}

\* Backend answers.
KeyContexts == {<<>>, <<"ctx">>}
QuestionLists == {<<>>, <<"Q1", "Q2">>, <<"Q1", "Q1">>}
\* Subject and body of a generated message: the draft with the least in it.
Drafts == {<< <<>>, <<>> >>}

\* Responses every operation can meet: the request fails, the body has no
\* choice, the content is not JSON, the content is the empty object.
BadCompletions ==
    {Completion(TRUE, <<>>), Completion(FALSE, <<>>),
     Completion(FALSE, <<Content(FALSE, {}, BlankValue)>>),
     Completion(FALSE, <<Content(TRUE, {}, BlankValue)>>)}

\* Responses to the three operations: those, and the objects of the
\* expected shape.
HistoryCompletions ==
    BadCompletions \cup
    {Completion(FALSE, <<Content(TRUE, {"is_relevant", "key_context"},
                                 [BlankValue EXCEPT !.is_relevant = r,
                                                    !.key_context = kc])>>) :
        r \in BOOLEAN, kc \in KeyContexts}

QuestionsCompletions ==
    BadCompletions \cup
    {Completion(FALSE, <<Content(TRUE, {"questions"},
                                 [BlankValue EXCEPT !.questions = qs])>>) :
        qs \in QuestionLists}

CommitMessageCompletions ==
    BadCompletions \cup
    {Completion(FALSE, <<Content(TRUE, {"subject", "body"},
                                 [BlankValue EXCEPT !.subject = d[1],
                                                    !.body = d[2]])>>) :
        d \in Drafts}

-----------------------------------------------------------------------------
(* The runtime *)

InFlight == BagCardinality(cmds) + BagCardinality(msgs)

\* The commands still running whose name is among names, with multiplicity.
Pending(names) ==
    LET S == {c \in BagToSet(cmds) : c.name \in names}
    IN  BagCardinality([c \in S |-> CopiesIn(c, cmds)])

\* The units of work: the prerequisite check, the backend calls, the commit.
WorkCmds == BackendCmds \cup {"checkPrerequisitesCmd", "commitCmd"}

\* Units of work dispatched whose completion message Update has not yet had.
UnitsInFlight == Pending(WorkCmds) + BagCardinality(msgs)

Running == status = "running"

\* tea.Quit: the program ends, and with it the goroutines still running.
Quit ==
    /\ status' = "quit"
    /\ cmds' = EmptyBag
    /\ msgs' = EmptyBag

\* A panic ends the program the same way.
Crash ==
    /\ status' = "crashed"
    /\ cmds' = EmptyBag
    /\ msgs' = EmptyBag

\* The runtime starts the goroutine of a returned command.
Dispatch(c) == cmds' = cmds (+) SetToBag({c})

\* textarea.Model.Update on a key press, for a focused text area: the
\* character is inserted while the text stays among the texts explored.
TextAreaUpdate(ta, k) ==
    LET typed ==
            IF k = "enter" THEN Append(ta, "\n")
            ELSE IF k \in Runes THEN Append(ta, k)
            ELSE ta
    IN  IF typed \in TypedTexts THEN typed ELSE ta

\* NewModel and Init: model.go 68-95
Init ==
    /\ State = StateLoading
    /\ SetupStep = SetupStepProvider
    /\ SelectedProvider = ""
    /\ Err = NoErr
    /\ Config = NilConfig
    /\ AIClient = NilClient
    /\ Diff = 0
    /\ History = 0
    /\ HistoryCtx = <<>>
    /\ Questions = <<>>
    /\ Answers = <<>>
    /\ CurrentQIdx = 0
    /\ CommitMsg = <<>>
    /\ TextArea = <<>>
    /\ disk \in InitialDisks
    /\ envKey \in EnvKeys
    /\ Width = DefaultWidth
    /\ Height = DefaultHeight
    /\ prompt = NoPrompt
    /\ repo \in Repos
    /\ cmds = SetToBag({checkPrerequisites})
    /\ msgs = EmptyBag
    /\ status = "running"
    /\ checks = 1

-----------------------------------------------------------------------------
(* Update on a completion message: model.go 121-166.  rest is the bag of   *)
(* commands still running once the message has arrived.                    *)

\* The faulty variant that records the failure and stays where it is.
OnErrMsg_KeepState(m, rest) ==
    /\ Err' = m.err
    /\ cmds' = rest
    /\ UNCHANGED <<State, SetupStep, SelectedProvider, Config, AIClient, Diff,
                   History, HistoryCtx, Questions, Answers, CurrentQIdx,
                   CommitMsg, TextArea, status>>

OnErrMsg(m, rest) ==
    /\ Err' = m.err
    /\ State' = StateError
    /\ cmds' = rest
    /\ UNCHANGED <<SetupStep, SelectedProvider, Config, AIClient, Diff, History,
                   HistoryCtx, Questions, Answers, CurrentQIdx, CommitMsg,
                   TextArea, status>>

OnDiffTooLargeMsg(m, rest) ==
    /\ State' = StateDiffTooLarge
    /\ cmds' = rest
    /\ UNCHANGED <<SetupStep, SelectedProvider, Err, Config, AIClient, Diff,
                   History, HistoryCtx, Questions, Answers, CurrentQIdx,
                   CommitMsg, TextArea, status>>

OnPrerequisitesCheckedMsg(m, rest) ==
    /\ Config' = m.Config
    /\ LET r == NewClient(m.Config)
       IN  IF r.err # NoErr
           THEN /\ cmds' = rest (+) SetToBag({errCmd(r.err)})
                /\ UNCHANGED <<AIClient, Diff, History, State>>
           ELSE /\ AIClient' = r.client
                /\ Diff' = m.Diff
                /\ History' = m.History
                /\ State' = StateWelcome
                /\ cmds' = rest
    /\ UNCHANGED <<SetupStep, SelectedProvider, Err, HistoryCtx, Questions,
                   Answers, CurrentQIdx, CommitMsg, TextArea, status>>

OnHistoryAnalysisResultMsg(m, rest) ==
    /\ HistoryCtx' = m.KeyContext
    /\ State' = StateAnalysis
    /\ cmds' = rest (+) SetToBag({analyzeChangesCmd(AIClient, Diff, History)})
    /\ UNCHANGED <<SetupStep, SelectedProvider, Err, Config, AIClient, Diff,
                   History, Questions, Answers, CurrentQIdx, CommitMsg,
                   TextArea, status>>

OnAnalysisResultMsg(m, rest) ==
    /\ Questions' = m.Questions
    /\ IF Len(m.Questions) = 0
       THEN /\ cmds' = rest (+) SetToBag({generateCommitMsgCmd(
                                    AIClient, Diff, History, HistoryCtx)})
            /\ UNCHANGED State
       ELSE /\ State' = StateQuestioning
            /\ cmds' = rest
    /\ UNCHANGED <<SetupStep, SelectedProvider, Err, Config, AIClient, Diff,
                   History, HistoryCtx, Answers, CurrentQIdx, CommitMsg,
                   TextArea, status>>

OnCommitMsgGeneratedMsg(m, rest) ==
    /\ CommitMsg' = m.Message
    /\ State' = StateCommit
    /\ cmds' = rest (+) SetToBag({commitCmd(m.Message)})
    /\ UNCHANGED <<SetupStep, SelectedProvider, Err, Config, AIClient, Diff,
                   History, HistoryCtx, Questions, Answers, CurrentQIdx,
                   TextArea, status>>

\* The faulty variant that shows Success and goes on running.
OnCommitSuccessMsg_KeepRunning(m, rest) ==
    /\ State' = StateSuccess
    /\ cmds' = rest
    /\ UNCHANGED <<SetupStep, SelectedProvider, Err, Config, AIClient, Diff,
                   History, HistoryCtx, Questions, Answers, CurrentQIdx,
                   CommitMsg, TextArea, msgs, status>>

OnCommitSuccessMsg(m, rest) ==
    /\ State' = StateSuccess
    /\ Quit
    /\ UNCHANGED <<SetupStep, SelectedProvider, Err, Config, AIClient, Diff,
                   History, HistoryCtx, Questions, Answers, CurrentQIdx,
                   CommitMsg, TextArea>>

\* The faulty variant that shows Setup without taking the record.
OnSetupRequiredMsg_DropsConfig(m, rest) ==
    /\ State' = StateSetup
    /\ cmds' = rest
    /\ UNCHANGED <<SetupStep, SelectedProvider, Err, Config, AIClient, Diff,
                   History, HistoryCtx, Questions, Answers, CurrentQIdx,
                   CommitMsg, TextArea, status>>

OnSetupRequiredMsg(m, rest) ==
    /\ Config' = m.Config
    /\ State' = StateSetup
    /\ cmds' = rest
    /\ UNCHANGED <<SetupStep, SelectedProvider, Err, AIClient, Diff, History,
                   HistoryCtx, Questions, Answers, CurrentQIdx, CommitMsg,
                   TextArea, status>>

\* The faulty variant that shows the missing repository as a failure.
OnNoRepoMsg_AsError(m, rest) ==
    /\ State' = StateError
    /\ cmds' = rest
    /\ UNCHANGED <<SetupStep, SelectedProvider, Err, Config, AIClient, Diff,
                   History, HistoryCtx, Questions, Answers, CurrentQIdx,
                   CommitMsg, TextArea, status>>

OnNoRepoMsg(m, rest) ==
    /\ State' = StateNoRepo
    /\ cmds' = rest
    /\ UNCHANGED <<SetupStep, SelectedProvider, Err, Config, AIClient, Diff,
                   History, HistoryCtx, Questions, Answers, CurrentQIdx,
                   CommitMsg, TextArea, status>>

-----------------------------------------------------------------------------
(* The prerequisite check runs in its goroutine, reading and writing the   *)
(* configuration file; its message reaches Update in a later step.         *)

RunCheck(loadOk, saveOk) ==
    /\ Running
    /\ BagIn(checkPrerequisites, cmds)
    /\ LET r == checkPrerequisitesCmd(disk, envKey, loadOk, saveOk, repo)
       IN  /\ cmds' = cmds (-) SetToBag({checkPrerequisites})
           /\ msgs' = msgs (+) SetToBag({r.msg})
           /\ disk' = r.disk
    /\ UNCHANGED <<modelVars, envKey, Width, Height, prompt,
                   repo, status, checks>>

\* The message of a finished check is handed to Update.
Deliver(m, type) ==
    /\ Running
    /\ BagIn(m, msgs)
    /\ m.type = type
    /\ msgs' = msgs (-) SetToBag({m})
    /\ UNCHANGED <<disk, envKey, Width, Height, prompt, repo, checks>>

UpdateErrMsg(m) == Deliver(m, "errMsg") /\ OnErrMsg(m, cmds)

UpdateDiffTooLargeMsg(m) ==
    Deliver(m, "diffTooLargeMsg") /\ OnDiffTooLargeMsg(m, cmds)

UpdatePrerequisitesCheckedMsg(m) ==
    Deliver(m, "prerequisitesCheckedMsg") /\ OnPrerequisitesCheckedMsg(m, cmds)

UpdateSetupRequiredMsg(m) ==
    Deliver(m, "setupRequiredMsg") /\ OnSetupRequiredMsg(m, cmds)

UpdateNoRepoMsg(m) == Deliver(m, "noRepoMsg") /\ OnNoRepoMsg(m, cmds)

-----------------------------------------------------------------------------
(* The other commands touch nothing but their arguments: each finishes and *)
(* has its message handled by Update in one step.                          *)

Finish(c, name) ==
    /\ Running
    /\ BagIn(c, cmds)
    /\ c.name = name
    /\ UNCHANGED <<disk, envKey, Width, Height, prompt, repo, checks>>

Rest(c) == cmds (-) SetToBag({c})

\* A panic in the goroutine of a backend command ends the program.
BackendPanic(c) ==
    /\ Running
    /\ BagIn(c, cmds)
    /\ c.name \in BackendCmds
    /\ Crash
    /\ UNCHANGED <<modelVars, disk, envKey, Width, Height, prompt,
                   repo, checks>>

\* The request fails, or the body does not parse: errMsg.
BackendFail(c, e) ==
    /\ \E name \in BackendCmds : Finish(c, name)
    /\ c.client.kind # "nil"
    /\ OnErrMsg(errMsg(e), Rest(c))
    /\ UNCHANGED msgs

\* analyzeHistoryCmd: model.go 557-565
AnalyzeHistoryDone(c, isRelevant, kc) ==
    /\ Finish(c, "analyzeHistoryCmd")
    /\ c.client.kind # "nil"
    /\ OnHistoryAnalysisResultMsg(historyAnalysisResultMsg(kc), Rest(c))
    /\ UNCHANGED msgs

\* analyzeChangesCmd: model.go 567-575
AnalyzeChangesDone(c, qs) ==
    /\ Finish(c, "analyzeChangesCmd")
    /\ c.client.kind # "nil"
    /\ OnAnalysisResultMsg(analysisResultMsg(qs), Rest(c))
    /\ UNCHANGED msgs

\* generateCommitMsgCmd: model.go 577-590
GenerateCommitMsgDone(c, message) ==
    /\ Finish(c, "generateCommitMsgCmd")
    /\ c.client.kind # "nil"
    /\ OnCommitMsgGeneratedMsg(commitMsgGeneratedMsg(message), Rest(c))
    /\ UNCHANGED msgs

\* The call panics: client is a nil ai.Provider, or the operation panics.
Panics(c, r) == c.client.kind = "nil" \/ r.panic

\* A backend command runs to its end on the response resp: the operation
\* panics, or its error or its result is handled by Update.
AnalyzeHistoryReturns(c, resp) ==
    LET r == AnalyzeHistory(resp)
    IN  /\ c.name = "analyzeHistoryCmd"
        /\ CASE Panics(c, r) -> BackendPanic(c)
             [] ~Panics(c, r) /\ r.err # NoErr -> BackendFail(c, r.err)
             [] OTHER ->
                   AnalyzeHistoryDone(c, r.value.IsRelevant, r.value.KeyContext)

AnalyzeChangesReturns(c, resp) ==
    LET r == GenerateQuestions(resp)
    IN  /\ c.name = "analyzeChangesCmd"
        /\ CASE Panics(c, r) -> BackendPanic(c)
             [] ~Panics(c, r) /\ r.err # NoErr -> BackendFail(c, r.err)
             [] OTHER -> AnalyzeChangesDone(c, r.value)

GenerateCommitMsgReturns(c, resp) ==
    LET r == GenerateCommitMessage(resp)
    IN  /\ c.name = "generateCommitMsgCmd"
        /\ CASE Panics(c, r) -> BackendPanic(c)
             [] ~Panics(c, r) /\ r.err # NoErr -> BackendFail(c, r.err)
             [] OTHER -> GenerateCommitMsgDone(c, r.value)

\* commitCmd: model.go 592-600
CommitDone(c) ==
    /\ Finish(c, "commitCmd")
    /\ OnCommitSuccessMsg(commitSuccessMsg, Rest(c))

CommitFail(c) ==
    /\ Finish(c, "commitCmd")
    /\ OnErrMsg(errMsg(ErrCommit), Rest(c))
    /\ UNCHANGED msgs

\* The closure of model.go 132.
ErrCmdDone(c) ==
    /\ Finish(c, "errCmd")
    /\ OnErrMsg(errMsg(c.err), Rest(c))
    /\ UNCHANGED msgs

-----------------------------------------------------------------------------
(* Update on a key press: model.go 107-116 and 168-320 *)

\* The faulty variant that lets "q" end the program from Welcome.
NoQuitStates_WithoutWelcome ==
    {StateQuestioning, StateReview, StateSetup, StateDiffTooLarge}

\* The states in which "q" is not the quit signal.
NoQuitStates ==
    {StateQuestioning, StateReview, StateSetup, StateWelcome, StateDiffTooLarge}

\* The key reaches the state switch of Update.
KeyReachesState(k) ==
    /\ Running
    /\ k # "ctrl+c"
    /\ ~(k = "q" /\ State \notin NoQuitStates)

KeyQuit(k) ==
    /\ Running
    /\ \/ k = "ctrl+c"
       \/ k = "q" /\ State \notin NoQuitStates
       \/ k = "q" /\ State = StateDiffTooLarge
    /\ Quit
    /\ UNCHANGED <<modelVars, disk, envKey, Width, Height, prompt,
                   repo, checks>>

\* The faulty variant that shows Commit and runs nothing.
KeyDiffTooLarge_NoCommit(k) ==
    /\ KeyReachesState(k)
    /\ State = StateDiffTooLarge
    /\ k \in {"m", "enter"}
    /\ CommitMsg' = <<>>
    /\ State' = StateCommit
    /\ UNCHANGED <<SetupStep, SelectedProvider, Err, Config, AIClient, Diff,
                   History, HistoryCtx, Questions, Answers, CurrentQIdx,
                   TextArea, disk, envKey,
                   Width, Height, prompt, repo, cmds, msgs, status, checks>>

KeyDiffTooLarge(k) ==
    /\ KeyReachesState(k)
    /\ State = StateDiffTooLarge
    /\ k \in {"m", "enter"}
    /\ CommitMsg' = <<>>
    /\ State' = StateCommit
    /\ Dispatch(commitCmd(<<>>))
    /\ UNCHANGED <<SetupStep, SelectedProvider, Err, Config, AIClient, Diff,
                   History, HistoryCtx, Questions, Answers, CurrentQIdx,
                   TextArea, disk, envKey,
                   Width, Height, prompt, repo, msgs, status, checks>>

\* The faulty variant whose manual choice also has the history analysed.
KeyWelcome_ManualAnalyzes(k) ==
    /\ KeyReachesState(k)
    /\ State = StateWelcome
    /\ CASE k \in {"1", "enter"} ->
              /\ State' = StateHistoryAnalysis
              /\ Dispatch(analyzeHistoryCmd(AIClient, Diff, History))
              /\ UNCHANGED <<CommitMsg, SetupStep>>
         [] k = "2" ->
              /\ CommitMsg' = <<>>
              /\ State' = StateCommit
              /\ cmds' = cmds (+) SetToBag({commitCmd(<<>>)})
                              (+) SetToBag({analyzeHistoryCmd(AIClient, Diff,
                                                              History)})
              /\ UNCHANGED SetupStep
         [] ToLower(k) = "c" ->
              /\ State' = StateSetup
              /\ SetupStep' = SetupStepProvider
              /\ UNCHANGED <<CommitMsg, cmds>>
         [] OTHER -> FALSE
    /\ UNCHANGED <<SelectedProvider, Err, Config, AIClient, Diff, History,
                   HistoryCtx, Questions, Answers, CurrentQIdx, TextArea, disk,
                   envKey, Width, Height, prompt, repo, msgs, status, checks>>

KeyWelcome(k) ==
    /\ KeyReachesState(k)
    /\ State = StateWelcome
    /\ CASE k \in {"1", "enter"} ->
              /\ State' = StateHistoryAnalysis
              /\ Dispatch(analyzeHistoryCmd(AIClient, Diff, History))
              /\ UNCHANGED <<CommitMsg, SetupStep>>
         [] k = "2" ->
              /\ CommitMsg' = <<>>
              /\ State' = StateCommit
              /\ Dispatch(commitCmd(<<>>))
              /\ UNCHANGED SetupStep
         [] ToLower(k) = "c" ->
              /\ State' = StateSetup
              /\ SetupStep' = SetupStepProvider
              /\ UNCHANGED <<CommitMsg, cmds>>
         [] OTHER -> FALSE
    /\ UNCHANGED <<SelectedProvider, Err, Config, AIClient, Diff, History,
                   HistoryCtx, Questions, Answers, CurrentQIdx, TextArea, disk,
                   envKey, Width, Height, prompt, repo, msgs, status, checks>>

\* The faulty variant that hands such a key to the text area.
KeyIgnored_Typed(k) ==
    /\ KeyReachesState(k)
    /\ \/ State \notin {StateDiffTooLarge, StateWelcome, StateSetup,
                        StateQuestioning}
       \/ State = StateDiffTooLarge /\ k \notin {"m", "enter", "q"}
       \/ State = StateWelcome /\ k \notin {"1", "enter", "2", "c", "C"}
    /\ TextArea' = TextAreaUpdate(TextArea, k)
    /\ UNCHANGED <<State, SetupStep, SelectedProvider, Err, Config, AIClient,
                   Diff, History, HistoryCtx, Questions, Answers, CurrentQIdx,
                   CommitMsg, disk, envKey,
                   Width, Height, prompt, repo, cmds, msgs, status, checks>>

\* Keys no branch of the state switch handles: Update returns m, nil.
KeyIgnored(k) ==
    /\ KeyReachesState(k)
    /\ \/ State \notin {StateDiffTooLarge, StateWelcome, StateSetup,
                        StateQuestioning}
       \/ State = StateDiffTooLarge /\ k \notin {"m", "enter", "q"}
       \/ State = StateWelcome /\ k \notin {"1", "enter", "2", "c", "C"}
    /\ UNCHANGED vars

-----------------------------------------------------------------------------
(* Update in Setup: model.go 203-287 *)

\* A nil *config.Config is dereferenced: the program panics.
Panic ==
    /\ Crash
    /\ UNCHANGED <<modelVars, disk, envKey, Width, Height, prompt,
                   repo, checks>>

\* The faulty variant that writes the record and leaves it at that.
SaveAndRecheck_NoRecheck(cfg, saveOk, textAfter) ==
    /\ Config' = cfg
    /\ disk' = Save(cfg, disk, saveOk)
    /\ IF saveOk
       THEN /\ TextArea' = textAfter
            /\ UNCHANGED <<Err, State, cmds, checks>>
       ELSE /\ Err' = ErrSave
            /\ State' = StateError
            /\ UNCHANGED <<cmds, TextArea, checks>>

\* m.Config.Save() of the setup flow and what follows it: on failure the
\* error is shown, on success the prerequisite check is run again.
SaveAndRecheck(cfg, saveOk, textAfter) ==
    /\ Config' = cfg
    /\ disk' = Save(cfg, disk, saveOk)
    /\ IF saveOk
       THEN /\ checks < MaxChecks
            /\ checks' = checks + 1
            /\ Dispatch(checkPrerequisites)
            /\ TextArea' = textAfter
            /\ UNCHANGED <<Err, State>>
       ELSE /\ Err' = ErrSave
            /\ State' = StateError
            /\ UNCHANGED <<cmds, TextArea, checks>>

KeySetupProvider(k) ==
    /\ KeyReachesState(k)
    /\ State = StateSetup
    /\ SetupStep = SetupStepProvider
    /\ CASE k = "1" ->
              /\ SelectedProvider' = ProviderOpenAI
              /\ SetupStep' = IF envKey # <<>>
                              THEN SetupStepConfirmOpenAIKey
                              ELSE SetupStepOpenAIKey
              /\ TextArea' = <<>>
         [] k = "2" ->
              /\ SelectedProvider' = ProviderOllama
              /\ SetupStep' = SetupStepOllamaURL
              /\ TextArea' = DefaultURL
         [] OTHER ->
              /\ TextArea' = TextAreaUpdate(TextArea, k)
              /\ UNCHANGED <<SelectedProvider, SetupStep>>
    /\ UNCHANGED <<State, Err, Config, AIClient, Diff, History, HistoryCtx,
                   Questions, Answers, CurrentQIdx, CommitMsg, disk, envKey,
                   Width, Height, prompt, repo,
                   cmds, msgs, status, checks>>

KeySetupConfirmOpenAIKey(k, saveOk) ==
    /\ KeyReachesState(k)
    /\ State = StateSetup
    /\ SetupStep = SetupStepConfirmOpenAIKey
    /\ CASE ToLower(k) \in {"y", "enter"} ->
              IF Config.nil THEN Panic
              ELSE /\ SaveAndRecheck(
                        [Config EXCEPT !.Provider = ProviderOpenAI,
                                       !.OpenAIAPIKey = envKey],
                        saveOk, TextArea)
                   /\ UNCHANGED <<SetupStep, SelectedProvider, AIClient, Diff,
                                  History, HistoryCtx, Questions, Answers,
                                  CurrentQIdx, CommitMsg, envKey,
                                  Width, Height, prompt, repo, msgs, status>>
         [] ToLower(k) = "n" ->
              /\ SetupStep' = SetupStepOpenAIKey
              /\ TextArea' = <<>>
              /\ UNCHANGED <<State, SelectedProvider, Err, Config, AIClient,
                             Diff, History, HistoryCtx, Questions, Answers,
                             CurrentQIdx, CommitMsg, disk, envKey,
                             Width, Height, prompt, repo, cmds, msgs,
                             status, checks>>
         [] OTHER ->
              /\ TextArea' = TextAreaUpdate(TextArea, k)
              /\ UNCHANGED <<State, SetupStep, SelectedProvider, Err, Config,
                             AIClient, Diff, History, HistoryCtx, Questions,
                             Answers, CurrentQIdx, CommitMsg, disk, envKey,
                             Width, Height, prompt, repo,
                             cmds, msgs, status, checks>>

KeySetupOpenAIKey(k, saveOk) ==
    /\ KeyReachesState(k)
    /\ State = StateSetup
    /\ SetupStep = SetupStepOpenAIKey
    /\ LET input == TrimSpace(TextArea)
       IN  IF k = "enter" /\ input # <<>>
           THEN IF Config.nil THEN Panic
                ELSE /\ SaveAndRecheck(
                          [Config EXCEPT !.Provider = ProviderOpenAI,
                                         !.OpenAIAPIKey = input],
                          saveOk, <<>>)
                     /\ UNCHANGED <<SetupStep, SelectedProvider, AIClient,
                                    Diff, History, HistoryCtx, Questions,
                                    Answers, CurrentQIdx, CommitMsg, envKey,
                                    Width, Height, prompt, repo,
                                    msgs, status>>
           ELSE /\ TextArea' = TextAreaUpdate(TextArea, k)
                /\ UNCHANGED <<State, SetupStep, SelectedProvider, Err, Config,
                               AIClient, Diff, History, HistoryCtx, Questions,
                               Answers, CurrentQIdx, CommitMsg, disk, envKey,
                               Width, Height, prompt, repo,
                               cmds, msgs, status, checks>>

KeySetupOllamaURL(k) ==
    /\ KeyReachesState(k)
    /\ State = StateSetup
    /\ SetupStep = SetupStepOllamaURL
    /\ LET input == TrimSpace(TextArea)
       IN  IF k = "enter" /\ input # <<>>
           THEN IF Config.nil THEN Panic
                ELSE /\ Config' = [Config EXCEPT !.OllamaURL = input]
                     /\ SetupStep' = SetupStepOllamaModel
                     /\ TextArea' = SetupDefaultModel
                     /\ UNCHANGED <<State, SelectedProvider, Err, AIClient,
                                    Diff, History, HistoryCtx, Questions,
                                    Answers, CurrentQIdx, CommitMsg, disk,
                                    envKey,
                                    Width, Height, prompt, repo, cmds, msgs,
                                    status, checks>>
           ELSE /\ TextArea' = TextAreaUpdate(TextArea, k)
                /\ UNCHANGED <<State, SetupStep, SelectedProvider, Err, Config,
                               AIClient, Diff, History, HistoryCtx, Questions,
                               Answers, CurrentQIdx, CommitMsg, disk, envKey,
                               Width, Height, prompt, repo,
                               cmds, msgs, status, checks>>

KeySetupOllamaModel(k, saveOk) ==
    /\ KeyReachesState(k)
    /\ State = StateSetup
    /\ SetupStep = SetupStepOllamaModel
    /\ LET input == TrimSpace(TextArea)
       IN  IF k = "enter" /\ input # <<>>
           THEN IF Config.nil THEN Panic
                ELSE /\ SaveAndRecheck(
                          [Config EXCEPT !.Provider = ProviderOllama,
                                         !.OllamaModel = input],
                          saveOk, <<>>)
                     /\ UNCHANGED <<SetupStep, SelectedProvider, AIClient,
                                    Diff, History, HistoryCtx, Questions,
                                    Answers, CurrentQIdx, CommitMsg, envKey,
                                    Width, Height, prompt, repo,
                                    msgs, status>>
           ELSE /\ TextArea' = TextAreaUpdate(TextArea, k)
                /\ UNCHANGED <<State, SetupStep, SelectedProvider, Err, Config,
                               AIClient, Diff, History, HistoryCtx, Questions,
                               Answers, CurrentQIdx, CommitMsg, disk, envKey,
                               Width, Height, prompt, repo,
                               cmds, msgs, status, checks>>

-----------------------------------------------------------------------------
(* Update in Questioning: model.go 288-310 *)

\* m.Answers[q] = answer
MapPut(map, q, answer) ==
    [x \in (DOMAIN map) \cup {q} |-> IF x = q THEN answer ELSE map[x]]

\* All questions answered: the check of model.go 301.
AllAnswered(idx, qs) == idx >= Len(qs)

KeyQuestioning(k) ==
    /\ KeyReachesState(k)
    /\ State = StateQuestioning
    /\ LET answer == TrimSpace(TextArea)
       IN  IF k = "enter" /\ answer # <<>>
           THEN IF CurrentQIdx >= Len(Questions)
                THEN \* m.Questions[m.CurrentQIdx]: index out of range
                     /\ Crash
                     /\ UNCHANGED modelVars
                ELSE /\ Answers' = MapPut(Answers, Questions[CurrentQIdx + 1],
                                          answer)
                     /\ CurrentQIdx' = CurrentQIdx + 1
                     /\ TextArea' = <<>>
                     /\ IF AllAnswered(CurrentQIdx + 1, Questions)
                        THEN /\ State' = StateLoading
                             /\ Dispatch(generateCommitMsgCmd(
                                    AIClient, Diff, History, HistoryCtx))
                        ELSE UNCHANGED <<State, cmds>>
                     /\ UNCHANGED <<SetupStep, SelectedProvider, Err, Config,
                                    AIClient, Diff, History, HistoryCtx,
                                    Questions, CommitMsg, msgs, status>>
           ELSE /\ TextArea' = TextAreaUpdate(TextArea, k)
                /\ UNCHANGED <<State, SetupStep, SelectedProvider, Err, Config,
                               AIClient, Diff, History, HistoryCtx, Questions,
                               Answers, CurrentQIdx, CommitMsg, cmds, msgs,
                               status>>
    /\ UNCHANGED <<disk, envKey, Width, Height, prompt, repo, checks>>

-----------------------------------------------------------------------------
(* The session *)

\* Update on the key press k, whatever the state.
KeyStep(k) ==
    \/ KeyQuit(k)
    \/ KeyDiffTooLarge(k)
    \/ KeyWelcome(k)
    \/ KeySetupProvider(k)
    \/ \E saveOk \in BOOLEAN : KeySetupConfirmOpenAIKey(k, saveOk)
    \/ \E saveOk \in BOOLEAN : KeySetupOpenAIKey(k, saveOk)
    \/ KeySetupOllamaURL(k)
    \/ \E saveOk \in BOOLEAN : KeySetupOllamaModel(k, saveOk)
    \/ KeyQuestioning(k)
    \/ KeyIgnored(k)

Next ==
    \/ \E loadOk \in BOOLEAN, saveOk \in BOOLEAN : RunCheck(loadOk, saveOk)
    \/ \E m \in BagToSet(msgs) : UpdateErrMsg(m)
    \/ \E m \in BagToSet(msgs) : UpdateDiffTooLargeMsg(m)
    \/ \E m \in BagToSet(msgs) : UpdatePrerequisitesCheckedMsg(m)
    \/ \E m \in BagToSet(msgs) : UpdateSetupRequiredMsg(m)
    \/ \E m \in BagToSet(msgs) : UpdateNoRepoMsg(m)
    \/ \E c \in BagToSet(cmds), resp \in HistoryCompletions :
          AnalyzeHistoryReturns(c, resp)
    \/ \E c \in BagToSet(cmds), resp \in QuestionsCompletions :
          AnalyzeChangesReturns(c, resp)
    \/ \E c \in BagToSet(cmds), resp \in CommitMessageCompletions :
          GenerateCommitMsgReturns(c, resp)
    \/ \E c \in BagToSet(cmds) : CommitDone(c)
    \/ \E c \in BagToSet(cmds) : CommitFail(c)
    \/ \E c \in BagToSet(cmds) : ErrCmdDone(c)
    \/ \E k \in ScreenKeys(State, SetupStep) : KeyQuit(k)
    \/ \E k \in ScreenKeys(State, SetupStep) : KeyDiffTooLarge(k)
    \/ \E k \in ScreenKeys(State, SetupStep) : KeyWelcome(k)
    \/ \E k \in ScreenKeys(State, SetupStep) : KeySetupProvider(k)
    \/ \E k \in ScreenKeys(State, SetupStep), saveOk \in BOOLEAN :
          KeySetupConfirmOpenAIKey(k, saveOk)
    \/ \E k \in ScreenKeys(State, SetupStep), saveOk \in BOOLEAN :
          KeySetupOpenAIKey(k, saveOk)
    \/ \E k \in ScreenKeys(State, SetupStep) : KeySetupOllamaURL(k)
    \/ \E k \in ScreenKeys(State, SetupStep), saveOk \in BOOLEAN :
          KeySetupOllamaModel(k, saveOk)
    \/ \E k \in ScreenKeys(State, SetupStep) : KeyQuestioning(k)
    \/ \E k \in ScreenKeys(State, SetupStep) : KeyIgnored(k)

Spec == Init /\ [][Next]_vars

-----------------------------------------------------------------------------
(* The session with the events of the view.  A resize and a tick of the    *)
(* spinner change what is drawn (the window size; the frame of the         *)
(* spinner, which is not a variable here) and nothing Spec depends on, so  *)
(* Spec takes them as stuttering steps; here they are actions.             *)

\* The faulty variant that resets the text area on a resize.
UpdateWindowSizeMsg_ResetsText(w, h) ==
    /\ Running
    /\ Width' = w
    /\ Height' = h
    /\ TextArea' = <<>>
    /\ UNCHANGED <<State, SetupStep, SelectedProvider, Err, Config, AIClient,
                   Diff, History, HistoryCtx, Questions, Answers, CurrentQIdx,
                   CommitMsg, disk, envKey, prompt, repo, cmds, msgs, status,
                   checks>>

\* Update on tea.WindowSizeMsg: model.go 100-105; the message then reaches
\* the state switch, where Setup and Questioning hand it to the text area
\* (model.go 286, 309), which takes keys only.
UpdateWindowSizeMsg(w, h) ==
    /\ Running
    /\ Width' = w
    /\ Height' = h
    /\ TextArea' = IF State \in {StateSetup, StateQuestioning}
                   THEN TextAreaUpdate(TextArea, "tea.WindowSizeMsg")
                   ELSE TextArea
    /\ UNCHANGED <<State, SetupStep, SelectedProvider, Err, Config, AIClient,
                   Diff, History, HistoryCtx, Questions, Answers, CurrentQIdx,
                   CommitMsg, disk, envKey, prompt, repo, cmds, msgs, status,
                   checks>>

\* Update on spinner.TickMsg: model.go 117-120; the spinner advances and
\* Update returns before the state switch.
UpdateTickMsg ==
    /\ Running
    /\ UNCHANGED vars

ViewNext ==
    \/ Next
    \/ \E size \in WindowSizes : UpdateWindowSizeMsg(size[1], size[2])
    \/ UpdateTickMsg

SpecView == Init /\ [][ViewNext]_vars

-----------------------------------------------------------------------------
(* The configuration record on its own: internal/config under the          *)
(* assignments the session makes to the record, without the session.  The  *)
(* environment may hold a credential that is not valid UTF-8.              *)

ConfigEnvKeys == EnvKeys \cup {<<"s", InvalidByte>>}
\* Credentials, model names and URLs submitted in Setup.
SetupKeys == {<<"q">>}
SetupModels == {SetupDefaultModel, <<"q">>}
SetupURLs == {DefaultURL, <<"q">>}

ConfigInit ==
    /\ State = StateLoading
    /\ SetupStep = SetupStepProvider
    /\ SelectedProvider = ""
    /\ Err = NoErr
    /\ Config = NilConfig
    /\ AIClient = NilClient
    /\ Diff = 0
    /\ History = 0
    /\ HistoryCtx = <<>>
    /\ Questions = <<>>
    /\ Answers = <<>>
    /\ CurrentQIdx = 0
    /\ CommitMsg = <<>>
    /\ TextArea = <<>>
    /\ disk \in InitialDisks
    /\ envKey \in ConfigEnvKeys
    /\ Width = DefaultWidth
    /\ Height = DefaultHeight
    /\ prompt = NoPrompt
    /\ repo = RepoObs(FALSE, FALSE, 0, FALSE, 0)
    /\ cmds = EmptyBag
    /\ msgs = EmptyBag
    /\ status = "running"
    /\ checks = 1

\* Everything but the record and the file.
configFrame ==
    <<State, SetupStep, SelectedProvider, Err, AIClient, Diff, History,
      HistoryCtx, Questions, Answers, CurrentQIdx, CommitMsg, TextArea, envKey,
      Width, Height, prompt, repo, cmds, msgs, status, checks>>

\* config.Load()
ConfigLoad ==
    /\ Config' = Load(disk, envKey)
    /\ UNCHANGED <<disk, configFrame>>

\* cfg.OpenAIAPIKey = os.Getenv("OPENAI_API_KEY") of the check's fallback
ConfigUseEnvKey ==
    /\ ~Config.nil
    /\ UsesEnvKey(Config, envKey)
    /\ Config' = [Config EXCEPT !.OpenAIAPIKey = envKey]
    /\ UNCHANGED <<disk, configFrame>>

\* The assignments of the remote branch of Setup.
ConfigSetOpenAI(key) ==
    /\ ~Config.nil
    /\ key # <<>>
    /\ Config' = [Config EXCEPT !.Provider = ProviderOpenAI,
                                 !.OpenAIAPIKey = key]
    /\ UNCHANGED <<disk, configFrame>>

\* The assignments of the local branch of Setup: the URL, then the
\* provider and the model name.
ConfigSetOllamaURL(url) ==
    /\ ~Config.nil
    /\ Config' = [Config EXCEPT !.OllamaURL = url]
    /\ UNCHANGED <<disk, configFrame>>

ConfigSetOllamaModel(model) ==
    /\ ~Config.nil
    /\ Config' = [Config EXCEPT !.Provider = ProviderOllama,
                                 !.OllamaModel = model]
    /\ UNCHANGED <<disk, configFrame>>

\* (*Config).Save()
ConfigSave(saveOk) ==
    /\ ~Config.nil
    /\ disk' = Save(Config, disk, saveOk)
    /\ UNCHANGED <<Config, configFrame>>

ConfigNext ==
    \/ ConfigLoad
    \/ ConfigUseEnvKey
    \/ \E key \in SetupKeys \cup {envKey} : ConfigSetOpenAI(key)
    \/ \E url \in SetupURLs : ConfigSetOllamaURL(url)
    \/ \E model \in SetupModels : ConfigSetOllamaModel(model)
    \/ \E saveOk \in BOOLEAN : ConfigSave(saveOk)

SpecConfig == ConfigInit /\ [][ConfigNext]_vars

-----------------------------------------------------------------------------
(* The request for a message.  The prompt leaves with the request and is   *)
(* no part of the session, so Spec does not record it; here the questions  *)
(* are answered as in the session and the closure of generateCommitMsgCmd  *)
(* builds the prompt from the arguments it holds.                          *)

\* Clients of a session that reached Questioning.
PromptClients ==
    {NewOpenAIClient(<<"s", "k">>), NewOllamaClient(DefaultURL, DefaultModel)}

PromptInit ==
    /\ State = StateQuestioning
    /\ SetupStep = SetupStepProvider
    /\ SelectedProvider = ""
    /\ Err = NoErr
    /\ Config = NilConfig
    /\ AIClient \in PromptClients
    /\ Diff \in DiffLens \ {0, DiffLimit + 1}
    /\ History \in {0, HistoryCount}
    /\ HistoryCtx \in KeyContexts
    /\ Questions \in QuestionLists \ {<<>>}
    /\ Answers = <<>>
    /\ CurrentQIdx = 0
    /\ CommitMsg = <<>>
    /\ TextArea = <<>>
    /\ disk = NoFile
    /\ envKey = <<>>
    /\ Width = DefaultWidth
    /\ Height = DefaultHeight
    /\ prompt = NoPrompt
    /\ repo = RepoObs(TRUE, TRUE, Diff, TRUE, HistoryCount + 1)
    /\ cmds = EmptyBag
    /\ msgs = EmptyBag
    /\ status = "running"
    /\ checks = 1

\* The closure of generateCommitMsgCmd calls GenerateCommitMessage, which
\* builds the user prompt: ai.go 186-191, 380-385.
BuildPrompt(c, order) ==
    /\ Running
    /\ BagIn(c, cmds)
    /\ c.name = "generateCommitMsgCmd"
    /\ order \in RangeOrders(Answers)
    /\ prompt' = UserPrompt(GenerateCommitMsgArgs(c, Answers), order)
    /\ UNCHANGED <<modelVars, disk, envKey, Width, Height, repo, cmds, msgs,
                   status, checks>>

PromptNext ==
    \/ \E k \in ScreenKeys(State, SetupStep) : KeyQuestioning(k)
    \/ \E c \in BagToSet(cmds), order \in RangeOrders(Answers) :
          BuildPrompt(c, order)

SpecPrompt == PromptInit /\ [][PromptNext]_vars

-----------------------------------------------------------------------------
(* The session under fair scheduling: every goroutine the runtime started  *)
(* runs to its end and has its message handled, the backend answers every  *)
(* request with a response body that holds a choice, and the user goes on  *)
(* typing and submitting while a question is shown.                        *)

\* The responses of S whose body holds a choice, or whose request failed.
Delivered(S) == {resp \in S : ~ProviderCall(resp).panic}

\* A unit of work delivers its completion message and Update handles it.
Completes ==
    \/ \E loadOk \in BOOLEAN, saveOk \in BOOLEAN : RunCheck(loadOk, saveOk)
    \/ \E m \in BagToSet(msgs) : UpdateErrMsg(m)
    \/ \E m \in BagToSet(msgs) : UpdateDiffTooLargeMsg(m)
    \/ \E m \in BagToSet(msgs) : UpdatePrerequisitesCheckedMsg(m)
    \/ \E m \in BagToSet(msgs) : UpdateSetupRequiredMsg(m)
    \/ \E m \in BagToSet(msgs) : UpdateNoRepoMsg(m)
    \/ \E c \in BagToSet(cmds), resp \in Delivered(HistoryCompletions) :
          AnalyzeHistoryReturns(c, resp)
    \/ \E c \in BagToSet(cmds), resp \in Delivered(QuestionsCompletions) :
          AnalyzeChangesReturns(c, resp)
    \/ \E c \in BagToSet(cmds), resp \in Delivered(CommitMessageCompletions) :
          GenerateCommitMsgReturns(c, resp)
    \/ \E c \in BagToSet(cmds) : CommitDone(c)
    \/ \E c \in BagToSet(cmds) : CommitFail(c)
    \/ \E c \in BagToSet(cmds) : ErrCmdDone(c)

\* The user presses a key while a question is shown.
Answering == \E k \in ScreenKeys(State, SetupStep) : KeyQuestioning(k)

LiveNext ==
    \/ Completes
    \/ Answering
    \/ \E k \in ScreenKeys(State, SetupStep) : KeyQuit(k)
    \/ \E k \in ScreenKeys(State, SetupStep) : KeyDiffTooLarge(k)
    \/ \E k \in ScreenKeys(State, SetupStep) : KeyWelcome(k)
    \/ \E k \in ScreenKeys(State, SetupStep) : KeySetupProvider(k)
    \/ \E k \in ScreenKeys(State, SetupStep), saveOk \in BOOLEAN :
          KeySetupConfirmOpenAIKey(k, saveOk)
    \/ \E k \in ScreenKeys(State, SetupStep), saveOk \in BOOLEAN :
          KeySetupOpenAIKey(k, saveOk)
    \/ \E k \in ScreenKeys(State, SetupStep) : KeySetupOllamaURL(k)
    \/ \E k \in ScreenKeys(State, SetupStep), saveOk \in BOOLEAN :
          KeySetupOllamaModel(k, saveOk)
    \/ \E k \in ScreenKeys(State, SetupStep) : KeyIgnored(k)

SpecLive ==
    Init /\ [][LiveNext]_vars /\ WF_vars(Completes) /\ WF_vars(Answering)

-----------------------------------------------------------------------------
(* The client of the local provider on its own: ai.NewClient applied to    *)
(* records whose base URL is the default host and port, with or without a  *)
(* path.                                                                   *)

URLPieces == {"/", "v", "1", "c"}

\* http://localhost:11434, alone or followed by a path of up to MaxURLLen
\* characters.
BaseURLs ==
    {DefaultURL} \cup
    {DefaultURL \o <<"/">> \o rest :
        rest \in UNION {[1..n -> URLPieces] : n \in 0..(MaxURLLen - 1)}}

URLInit ==
    /\ State = StateLoading
    /\ SetupStep = SetupStepProvider
    /\ SelectedProvider = ""
    /\ Err = NoErr
    /\ \E url \in BaseURLs :
          Config = MkConfig(ProviderOllama, <<>>, DefaultModel, url)
    /\ AIClient = NilClient
    /\ Diff = 0
    /\ History = 0
    /\ HistoryCtx = <<>>
    /\ Questions = <<>>
    /\ Answers = <<>>
    /\ CurrentQIdx = 0
    /\ CommitMsg = <<>>
    /\ TextArea = <<>>
    /\ disk = Marshal(Config)
    /\ envKey = <<>>
    /\ Width = DefaultWidth
    /\ Height = DefaultHeight
    /\ prompt = NoPrompt
    /\ repo = RepoObs(FALSE, FALSE, 0, FALSE, 0)
    /\ cmds = EmptyBag
    /\ msgs = EmptyBag
    /\ status = "running"
    /\ checks = 1

\* client, err := ai.NewClient(m.Config); m.AIClient = client
URLNewClient ==
    /\ NewClient(Config).err = NoErr
    /\ AIClient' = NewClient(Config).client
    /\ UNCHANGED <<State, SetupStep, SelectedProvider, Err, Config, Diff,
                   History, HistoryCtx, Questions, Answers, CurrentQIdx,
                   CommitMsg, TextArea, disk, envKey, Width, Height, prompt,
                   repo, cmds, msgs, status, checks>>

URLNext == URLNewClient

SpecURL == URLInit /\ [][URLNext]_vars

-----------------------------------------------------------------------------
(* Claims *)

\* C1: in every reachable state at most one unit of work (prerequisite
\* check, backend call or commit invocation) has been dispatched and has not
\* yet delivered its completion message.
C1_AtMostOneUnitInFlight == UnitsInFlight <= 1

\* C2: no two backend calls (AnalyzeHistory, GenerateQuestions,
\* GenerateCommitMessage) are in flight at the same time.
C2_NoTwoBackendCalls == Pending(BackendCmds) <= 1

\* C3: the question index stays within 0..len(Questions) and is strictly
\* less than len(Questions) whenever the state is Questioning; a step in
\* which the index reaches len(Questions) leaves Questioning and dispatches
\* message generation.
C3_IndexInRange ==
    [][/\ 0 <= CurrentQIdx'
       /\ CurrentQIdx' <= Len(Questions')
       /\ State' = StateQuestioning => CurrentQIdx' < Len(Questions')
       /\ (CurrentQIdx' # CurrentQIdx /\ CurrentQIdx' = Len(Questions')) =>
             /\ State = StateQuestioning
             /\ State' # StateQuestioning
             /\ Pending({"generateCommitMsgCmd"})' =
                    Pending({"generateCommitMsgCmd"}) + 1]_vars

\* The configuration is complete for its provider kind: openai with a
\* non-empty API key, or ollama with a non-empty URL and model name.
CompleteConfig(cfg) ==
    \/ cfg.Provider = ProviderOpenAI /\ cfg.OpenAIAPIKey # <<>>
    \/ cfg.Provider = ProviderOllama
       /\ cfg.OllamaURL # <<>> /\ cfg.OllamaModel # <<>>

\* The client carries what its provider kind needs.
CompleteClient(client) ==
    \/ client.kind = "openai" /\ client.apiKey # <<>>
    \/ client.kind = "ollama"
       /\ client.model # <<>> /\ client.baseURL # NormalizeBaseURL(<<>>)

\* C4: whenever the prerequisite check reports success the configuration is
\* complete for its provider kind, and every backend call in flight uses a
\* client that carries what its provider kind needs.
C4_SuccessMeansComplete ==
    /\ \A m \in BagToSet(msgs) :
          m.type = "prerequisitesCheckedMsg" => CompleteConfig(m.Config)
    /\ \A c \in BagToSet(cmds) :
          c.name \in BackendCmds => CompleteClient(c.client)

\* C5: after the i-th non-empty submission in Questioning the answer map has
\* exactly i entries and its keys are the first i generated questions.
C5_AnswersFollowQuestions ==
    [][(State = StateQuestioning /\ CurrentQIdx' = CurrentQIdx + 1) =>
          /\ Cardinality(DOMAIN Answers') = CurrentQIdx'
          /\ DOMAIN Answers' = {Questions[j] : j \in 1..CurrentQIdx'}]_vars

\* The text is empty once trimmed.
Blank(s) == \A i \in DOMAIN s : s[i] \in Whitespace

\* C6: in Questioning, Enter on a text that is empty once trimmed leaves the
\* question index, the answer map and the state as they are and dispatches
\* nothing.
C6_EmptySubmissionIgnored ==
    [][(KeyQuestioning("enter") /\ Blank(TextArea)) =>
          UNCHANGED <<CurrentQIdx, Answers, State, cmds>>]_vars

\* C6: Enter was pressed in Questioning on an empty text, and the session is
\* still at the first question.
C6_Witness ==
    /\ Running
    /\ State = StateQuestioning
    /\ TextArea = <<"\n">>
    /\ CurrentQIdx = 0
    /\ Answers = <<>>
    /\ Pending({"generateCommitMsgCmd"}) = 0

\* C7: when question generation returns an empty list, message generation is
\* dispatched in that step and the session is not in Questioning; it does
\* not enter Questioning while that generation is still running.
C7_EmptyListSkipsQuestioning ==
    [][/\ (\E c \in BagToSet(cmds) : AnalyzeChangesDone(c, <<>>)) =>
             /\ Pending({"generateCommitMsgCmd"})' =
                    Pending({"generateCommitMsgCmd"}) + 1
             /\ State' # StateQuestioning
       /\ (Questions = <<>> /\ Pending({"generateCommitMsgCmd"}) > 0) =>
             State' # StateQuestioning]_vars

\* The record the check works with: the file as loaded, the credential of
\* the environment filled in where the file has none.
CheckedConfig ==
    LET loaded == Load(disk, envKey)
    IN  IF UsesEnvKey(loaded, envKey)
        THEN [loaded EXCEPT !.OpenAIAPIKey = envKey]
        ELSE loaded

\* The check runs to its end with the file loaded.
CheckStep == \E saveOk \in BOOLEAN : RunCheck(TRUE, saveOk)

GitOk == repo.isRepo => repo.diffOk /\ repo.histOk

\* C9: the check decides in a fixed order: an incomplete configuration gives
\* Setup; otherwise no repository gives NoRepo; otherwise an empty diff gives
\* the failure "no staged changes found" and Error; otherwise a diff over
\* the threshold gives DiffTooLarge; otherwise the diff and the last 10
\* history entries are captured and the session goes to Welcome.
C9_CheckPriority ==
    [][/\ (CheckStep /\ GitOk) =>
             LET cfg == CheckedConfig
                 last10 == IF repo.commits < 10 THEN repo.commits ELSE 10
                 expected ==
                     IF ~CompleteConfig(cfg) THEN setupRequiredMsg(cfg)
                     ELSE IF ~repo.isRepo THEN noRepoMsg
                     ELSE IF repo.diff = 0 THEN errMsg(ErrNoStaged)
                     ELSE IF repo.diff > DiffLimit THEN diffTooLargeMsg
                     ELSE prerequisitesCheckedMsg(cfg, repo.diff, last10)
             IN  msgs' (-) msgs = SetToBag({expected})
       /\ (\E m \in BagToSet(msgs) : UpdateSetupRequiredMsg(m)) =>
             State' = StateSetup
       /\ (\E m \in BagToSet(msgs) : UpdateNoRepoMsg(m)) =>
             State' = StateNoRepo
       /\ (\E m \in BagToSet(msgs) : UpdateErrMsg(m)) =>
             State' = StateError
       /\ (\E m \in BagToSet(msgs) : UpdateDiffTooLargeMsg(m)) =>
             State' = StateDiffTooLarge
       /\ \A m \in BagToSet(msgs) : UpdatePrerequisitesCheckedMsg(m) =>
             /\ State' = StateWelcome
             /\ Diff' = m.Diff
             /\ History' = m.History]_vars

\* The step stores the failure e, shows Error and starts nothing.
FailureHandled(e) ==
    /\ State' = StateError
    /\ Err' = e
    /\ \A c \in BagToSet(cmds') : CopiesIn(c, cmds') <= CopiesIn(c, cmds)
    /\ \A m \in BagToSet(msgs') : CopiesIn(m, msgs') <= CopiesIn(m, msgs)

\* C10: in every state a failure message moves the session to Error with
\* the failure stored as the last error, and dispatches nothing.
C10_FailureIsFinal ==
    [][/\ \A m \in BagToSet(msgs) : UpdateErrMsg(m) => FailureHandled(m.err)
       /\ \A c \in BagToSet(cmds) :
             /\ \A e \in {ErrBackend, ErrParse} :
                   BackendFail(c, e) => FailureHandled(e)
             /\ CommitFail(c) => FailureHandled(ErrCommit)
             /\ ErrCmdDone(c) => FailureHandled(c.err)]_vars

\* C10: a backend failure arrived while the questions were being answered;
\* the session shows it and nothing is in flight.
C10_Witness ==
    /\ Running
    /\ State = StateError
    /\ Err = ErrParse
    /\ Questions # <<>>
    /\ InFlight = 0

\* C11 as stated: in Error every key other than ctrl+c, "q" included,
\* leaves the session as it is: the program goes on and nothing is
\* dispatched.
C11_OnlyCtrlCInError ==
    [][\A k \in Keys \ {"ctrl+c"} :
          (State = StateError /\ KeyStep(k)) => UNCHANGED vars]_vars

\* C11: in Error, ctrl+c and "q" end the program and change nothing else
\* of the session; every other key leaves everything as it is.
C11_OnlyQuitInError ==
    [][State = StateError =>
          /\ \A k \in {"ctrl+c", "q"} :
                KeyStep(k) => /\ status' = "quit"
                              /\ cmds' = EmptyBag
                              /\ UNCHANGED <<modelVars, disk>>
          /\ \A k \in Keys \ {"ctrl+c", "q"} :
                KeyStep(k) => UNCHANGED vars]_vars

\* C11: the program was ended from the Error screen.
C11_Witness ==
    /\ status = "quit"
    /\ State = StateError
    /\ Err # NoErr

\* The body of resp lacks the expected shape: no choice, content that is
\* not JSON, or an object without a member of required.
Malformed(resp, required) ==
    /\ ~resp.err
    /\ \/ resp.choices = <<>>
       \/ ~resp.choices[1].json
       \/ ~(required \subseteq resp.choices[1].has)

\* C12: a response body of the wrong shape makes the operation fail: the
\* session goes to Error with the parse failure, the program keeps running
\* and nothing is dispatched.
C12_MalformedResponseFails ==
    [][\A c \in BagToSet(cmds) :
          /\ \A resp \in HistoryCompletions :
                (/\ Malformed(resp, {"is_relevant", "key_context"})
                 /\ AnalyzeHistoryReturns(c, resp)) =>
                   FailureHandled(ErrParse) /\ status' = "running"
          /\ \A resp \in QuestionsCompletions :
                (/\ Malformed(resp, {"questions"})
                 /\ AnalyzeChangesReturns(c, resp)) =>
                   FailureHandled(ErrParse) /\ status' = "running"
          /\ \A resp \in CommitMessageCompletions :
                (/\ Malformed(resp, {"subject", "body"})
                 /\ GenerateCommitMsgReturns(c, resp)) =>
                   FailureHandled(ErrParse) /\ status' = "running"]_vars

\* A key press in Setup submits the record for writing.
SetupSave(saveOk) ==
    \/ \E k \in {"y", "enter"} : KeySetupConfirmOpenAIKey(k, saveOk)
    \/ /\ TrimSpace(TextArea) # <<>>
       /\ \/ KeySetupOpenAIKey("enter", saveOk)
          \/ KeySetupOllamaModel("enter", saveOk)

\* C13: a failed write of the record is shown: in Setup the step goes to
\* Error, the check's fallback answers with the failure; from the Error so
\* reached the session neither goes to Welcome nor calls a backend.
C13_SaveFailureSurfaced ==
    [][/\ SetupSave(FALSE) =>
             /\ State' = StateError
             /\ Err' = ErrSave
             /\ cmds' = cmds
       /\ (RunCheck(TRUE, FALSE) /\ UsesEnvKey(Load(disk, envKey), envKey)) =>
             msgs' (-) msgs = SetToBag({errMsg(ErrSave)})
       /\ (State = StateError /\ Err = ErrSave) =>
             /\ State' # StateWelcome
             /\ Pending(BackendCmds)' <= Pending(BackendCmds)]_vars

\* The file names the remote provider without a credential, and the
\* environment holds one.
EnvCredentialOnly ==
    /\ disk.exists
    /\ disk.provider = ProviderOpenAI
    /\ disk.openai_api_key = <<>>
    /\ envKey # <<>>

\* The step adds a setupRequiredMsg to the messages.
SetupAsked ==
    \E m \in BagToSet(msgs') :
       m.type = "setupRequiredMsg" /\ CopiesIn(m, msgs') > CopiesIn(m, msgs)

\* C14 as stated: with the remote provider configured and the credential in
\* the environment only, the check sends the session to the first-run flow.
C14_EnvCredentialOffered ==
    [][(CheckStep /\ EnvCredentialOnly) => SetupAsked]_vars

\* C14: with the remote provider configured and the credential in the
\* environment only, the check takes the credential from the environment,
\* writes it into the record unless the write fails, and does not ask for
\* setup.  The offer is made in Setup when the remote provider is chosen
\* with the credential in the environment; accepting it writes the
\* credential into the record and runs the check again, and a check that
\* reads such a record does not ask for setup.
C14_EnvCredentialUsed ==
    [][/\ (CheckStep /\ EnvCredentialOnly) =>
             /\ ~SetupAsked
             /\ disk' \in {disk, [disk EXCEPT !.openai_api_key =
                                                  MarshalString(envKey)]}
             /\ \A m \in BagToSet(msgs') :
                   m.type = "prerequisitesCheckedMsg" =>
                      m.Config.OpenAIAPIKey # <<>>
       /\ (/\ State = StateSetup /\ SetupStep = SetupStepProvider
           /\ envKey # <<>> /\ KeyStep("1")) =>
             SetupStep' = SetupStepConfirmOpenAIKey
       /\ (\E k \in {"y", "enter"} : KeySetupConfirmOpenAIKey(k, TRUE)) =>
             /\ disk'.provider = ProviderOpenAI
             /\ disk'.openai_api_key = MarshalString(envKey)
             /\ Pending({"checkPrerequisitesCmd"})' =
                    Pending({"checkPrerequisitesCmd"}) + 1
       /\ (/\ CheckStep /\ disk.provider = ProviderOpenAI
           /\ disk.openai_api_key # <<>>) => ~SetupAsked]_vars

\* C14: the first check took the credential from the environment and wrote
\* it into the record; the session is in Welcome with a client that holds it.
C14_Witness ==
    /\ State = StateWelcome
    /\ checks = 1
    /\ envKey # <<>>
    /\ disk.exists
    /\ disk.provider = ProviderOpenAI
    /\ disk.openai_api_key = envKey
    /\ AIClient = NewOpenAIClient(envKey)

\* C15: with a complete configuration and no working tree the check answers
\* noRepoMsg, which puts the session in NoRepo with no failure stored and
\* nothing dispatched; in NoRepo "q" and ctrl+c end the program and every
\* other key leaves everything as it is.
C15_NoRepoOnlyQuit ==
    [][/\ (CheckStep /\ CompleteConfig(CheckedConfig) /\ ~repo.isRepo) =>
             msgs' (-) msgs = SetToBag({noRepoMsg})
       /\ \A m \in BagToSet(msgs) :
             UpdateNoRepoMsg(m) => /\ State' = StateNoRepo
                                   /\ Err' = Err
                                   /\ cmds' = cmds
       /\ State = StateNoRepo =>
             /\ \A k \in {"q", "ctrl+c"} :
                   KeyStep(k) => status' = "quit" /\ UNCHANGED modelVars
             /\ \A k \in Keys \ {"q", "ctrl+c"} :
                   KeyStep(k) => UNCHANGED vars]_vars

\* C15: the session shows NoRepo, outside a working tree, with a complete
\* configuration and no failure stored.
C15_Witness ==
    /\ Running
    /\ State = StateNoRepo
    /\ ~repo.isRepo
    /\ CompleteConfig(CheckedConfig)
    /\ Err = NoErr
    /\ InFlight = 0

\* C16 as stated: "q" ends the program in every state except Questioning,
\* Setup, Welcome and DiffTooLarge, and in those four it does not.
C16_QuitExceptFour ==
    [][KeyStep("q") =>
          (status' = "quit" <=>
             State \notin {StateQuestioning, StateSetup, StateWelcome,
                           StateDiffTooLarge})]_vars

\* C16: "q" ends the program in every state except Questioning, Setup and
\* Welcome, DiffTooLarge included; in Questioning and Setup it is typed
\* into the text area, in Welcome it does nothing; ctrl+c ends the program
\* in every state.
C16_QuitExceptThree ==
    [][/\ KeyStep("q") =>
             IF State \in {StateQuestioning, StateSetup, StateWelcome}
             THEN /\ status' = "running"
                  /\ TextArea' = IF State = StateWelcome THEN TextArea
                                 ELSE TextAreaUpdate(TextArea, "q")
                  /\ UNCHANGED <<State, SetupStep, Config, Answers,
                                 CurrentQIdx, CommitMsg, disk, cmds, msgs>>
             ELSE status' = "quit" /\ UNCHANGED modelVars
       /\ KeyStep("ctrl+c") => status' = "quit" /\ UNCHANGED modelVars]_vars

\* C16: the program was ended from the DiffTooLarge screen.
C16_Witness ==
    /\ status = "quit"
    /\ State = StateDiffTooLarge

\* The setup steps that take a text.
TextSteps == {SetupStepOpenAIKey, SetupStepOllamaURL, SetupStepOllamaModel}

\* C17: in Setup a text step leaves its place, changes the record or
\* dispatches only on Enter with a text that is not empty once trimmed; the
\* file is written only in the key entry, key confirmation and model name
\* steps; a successful write stores the record of the session and dispatches
\* the check once, and no other key press in Setup dispatches it.
C17_SetupSubmission ==
    [][/\ \A k \in Keys :
             (State = StateSetup /\ KeyStep(k) /\ status' = "running") =>
                /\ (/\ SetupStep \in TextSteps
                    /\ <<State, SetupStep, Config, disk, cmds>>' #
                           <<State, SetupStep, Config, disk, cmds>>) =>
                      k = "enter" /\ TrimSpace(TextArea) # <<>>
                /\ disk' # disk =>
                      SetupStep \in {SetupStepOpenAIKey,
                                     SetupStepConfirmOpenAIKey,
                                     SetupStepOllamaModel}
                /\ ~SetupSave(TRUE) => cmds' = cmds
       /\ SetupSave(TRUE) =>
             /\ disk' = Marshal(Config')
             /\ cmds' = cmds (+) SetToBag({checkPrerequisites})]_vars

\* C17: the model name was submitted in the last step of the local branch:
\* the record is on file and one check is running.
C17_Witness ==
    /\ Running
    /\ State = StateSetup
    /\ SetupStep = SetupStepOllamaModel
    /\ TextArea = <<>>
    /\ Config.OllamaModel = SetupDefaultModel
    /\ disk = Marshal(Config)
    /\ Pending({"checkPrerequisitesCmd"}) = 1

\* The step dispatches a command of the name.
Dispatched(name) == Pending({name})' > Pending({name})

\* C18: the interactive choice of Welcome dispatches history analysis and
\* nothing else; question generation is dispatched only in the step in
\* which history analysis returns its result, which stores the key context
\* and shows Analysis; message generation is dispatched only when question
\* generation has returned; and at each dispatch the operation dispatched
\* is the only backend call running.
C18_BackendOrder ==
    [][/\ (State = StateWelcome /\ \E k \in {"1", "enter"} : KeyStep(k)) =>
             /\ State' = StateHistoryAnalysis
             /\ cmds' = cmds (+) SetToBag({analyzeHistoryCmd(AIClient, Diff,
                                                             History)})
       /\ Dispatched("analyzeHistoryCmd") =>
             /\ State = StateWelcome
             /\ Pending(BackendCmds)' = 1
       /\ Dispatched("analyzeChangesCmd") =>
             /\ \E c \in BagToSet(cmds), resp \in HistoryCompletions :
                   /\ AnalyzeHistoryReturns(c, resp)
                   /\ AnalyzeHistory(resp).err = NoErr
                   /\ HistoryCtx' = AnalyzeHistory(resp).value.KeyContext
             /\ State' = StateAnalysis
             /\ Pending(BackendCmds)' = 1
       /\ Dispatched("generateCommitMsgCmd") =>
             /\ \/ \E c \in BagToSet(cmds) : AnalyzeChangesDone(c, <<>>)
                \/ KeyQuestioning("enter")
             /\ Pending(BackendCmds)' = 1]_vars

\* C19: the manual choice of Welcome empties the draft, shows Commit and
\* dispatches the commit without a message, so that git is run without
\* -m, whatever the session held.
C19_ManualCommitsEmptyDraft ==
    [][(State = StateWelcome /\ KeyStep("2")) =>
          /\ State' = StateCommit
          /\ CommitMsg' = <<>>
          /\ \E c \in BagToSet(cmds') :
                /\ cmds' = cmds (+) SetToBag({c})
                /\ c.name = "commitCmd"
                /\ c.message = <<>>
                /\ c.exec = [args |-> <<"commit">>, message |-> <<>>]]_vars

\* C19: the manual choice was made in a session that had questions and
\* answers: the draft is empty and the commit without a message is running.
C19_Witness ==
    /\ Running
    /\ State = StateCommit
    /\ CommitMsg = <<>>
    /\ Questions # <<>>
    /\ Answers # <<>>
    /\ \E c \in BagToSet(cmds) : c.name = "commitCmd" /\ c.message = <<>>

\* C20: the reconfigure choice of Welcome shows Setup at the provider
\* choice and dispatches nothing; when a check reports success the session
\* shows Welcome and its client is the one built from the record on file.
C20_ReconfigureRebuildsClient ==
    [][/\ (State = StateWelcome /\ KeyStep("c")) =>
             /\ State' = StateSetup
             /\ SetupStep' = SetupStepProvider
             /\ cmds' = cmds
       /\ \A m \in BagToSet(msgs) :
             (/\ UpdatePrerequisitesCheckedMsg(m)
              /\ NewClient(m.Config).err = NoErr) =>
                /\ State' = StateWelcome
                /\ AIClient' = NewClient(CheckedConfig).client]_vars

\* C21: in DiffTooLarge, "m" and Enter empty the draft, show Commit and
\* dispatch the commit without a message, and nothing else; "q" and ctrl+c
\* end the program; every other key leaves everything as it is.
C21_DiffTooLargeKeys ==
    [][State = StateDiffTooLarge =>
          /\ \A k \in {"m", "enter"} :
                KeyStep(k) =>
                   /\ State' = StateCommit
                   /\ CommitMsg' = <<>>
                   /\ cmds' = cmds (+) SetToBag({commitCmd(<<>>)})
                   /\ commitCmd(<<>>).exec = [args |-> <<"commit">>,
                                              message |-> <<>>]
                   /\ status' = "running"
                   /\ UNCHANGED <<SetupStep, SelectedProvider, Err, Config,
                                  AIClient, Diff, History, HistoryCtx,
                                  Questions, Answers, CurrentQIdx, TextArea,
                                  disk, msgs, checks>>
          /\ \A k \in {"q", "ctrl+c"} :
                KeyStep(k) => status' = "quit" /\ UNCHANGED <<modelVars, disk>>
          /\ \A k \in Keys \ {"m", "enter", "q", "ctrl+c"} :
                KeyStep(k) => UNCHANGED vars]_vars

\* C21: the commit was chosen on the DiffTooLarge screen: the session shows
\* Commit over a diff of 40,001 characters, without a client, and the commit
\* without a message is running.
C21_Witness ==
    /\ Running
    /\ State = StateCommit
    /\ CommitMsg = <<>>
    /\ repo.diff = DiffLimit + 1
    /\ AIClient = NilClient
    /\ cmds = SetToBag({commitCmd(<<>>)})

\* C22: Enter on a text that is not empty once trimmed, at the last
\* question, shows Loading and dispatches one message generation; its
\* arguments are the captured diff, the captured history followed by the
\* stored key context as bullets (nothing appended when there is none), and
\* the answer map, which holds one answer for each question answered.
C22_LastAnswerStartsGeneration ==
    [][(/\ KeyQuestioning("enter")
        /\ TrimSpace(TextArea) # <<>>
        /\ CurrentQIdx + 1 = Len(Questions)) =>
          LET g == generateCommitMsgCmd(AIClient, Diff, History, HistoryCtx)
              args == GenerateCommitMsgArgs(g, Answers')
          IN  /\ State' = StateLoading
              /\ cmds' = cmds (+) SetToBag({g})
              /\ args.diff = Diff
              /\ args.history.history = History
              /\ args.history.appended =
                     IF HistoryCtx = <<>> THEN <<>>
                     ELSE <<"\n\nKey Context from History:\n- ">>
                              \o Join(HistoryCtx, "\n- ")
              /\ DOMAIN args.answers = {Questions[i] : i \in 1..Len(Questions)}
              /\ Cardinality(DOMAIN args.answers) = Len(Questions)
              /\ \A q \in DOMAIN args.answers : ~Blank(args.answers[q])]_vars

\* The analysis of resp parsed and reports the history as not relevant.
NotRelevant(resp) ==
    /\ Parsed(AnalyzeHistory(resp))
    /\ ~AnalyzeHistory(resp).value.IsRelevant

\* C23: when the history analysis reports the history as not relevant,
\* the session is left so that message generation is handed neither the
\* history text nor key context bullets of that analysis.
C23_IrrelevantHistoryDropped ==
    [][\A c \in BagToSet(cmds), resp \in HistoryCompletions :
          (AnalyzeHistoryReturns(c, resp) /\ NotRelevant(resp)) =>
             LET g == generateCommitMsgCmd(AIClient', Diff', History',
                                           HistoryCtx')
             IN  GenerateCommitMsgArgs(g, Answers').history =
                    FullHistoryContext(0, <<>>)]_vars

\* The arguments of the git process open the editor: git commit alone, or
\* git commit with -e.
OpensEditor(exec) ==
    \/ exec.args = <<"commit">>
    \/ \E i \in DOMAIN exec.args : exec.args[i] = "-e"

\* C24: every commit dispatched runs git so that the editor opens: without
\* a message for an empty draft, with -e and the draft as the message for a
\* draft that is not empty.
C24_EditorAlwaysOpened ==
    \A c \in BagToSet(cmds) :
       c.name = "commitCmd" =>
          /\ OpensEditor(c.exec)
          /\ c.message = <<>> =>
                c.exec = [args |-> <<"commit">>, message |-> <<>>]
          /\ c.message # <<>> =>
                c.exec = [args |-> <<"commit", "-e", "-m">>,
                          message |-> c.message]

\* C24: the commit of a generated draft is running, with -e and the draft
\* as its message.
C24_Witness ==
    /\ Running
    /\ State = StateCommit
    /\ CommitMsg # <<>>
    /\ \E c \in BagToSet(cmds) :
          /\ c.name = "commitCmd"
          /\ c.message = CommitMsg
          /\ c.exec.args = <<"commit", "-e", "-m">>

\* C25: a commit that ends well shows Success and ends the program in the
\* same step; one that fails shows Error with the failure stored and the
\* program goes on; Success is shown only by the step in which a commit
\* the session dispatched ends well, and never while the program runs.
C25_CommitCompletion ==
    [][/\ \A c \in BagToSet(cmds) :
             /\ CommitDone(c) =>
                   /\ State' = StateSuccess
                   /\ status' = "quit"
                   /\ UNCHANGED <<Err, CommitMsg, disk>>
             /\ CommitFail(c) =>
                   /\ State' = StateError
                   /\ Err' = ErrCommit
                   /\ status' = "running"
       /\ (State # StateSuccess /\ State' = StateSuccess) =>
             \E c \in BagToSet(cmds) :
                c.name = "commitCmd" /\ c.exec = CommitCmd(c.message)
                /\ CommitDone(c)
       /\ State' = StateSuccess => status' = "quit"]_vars

\* C25: the commit of a generated draft ended well: Success, and the
\* program has ended.
C25_Witness ==
    /\ State = StateSuccess
    /\ status = "quit"
    /\ CommitMsg # <<>>
    /\ Err = NoErr

\* C26 as stated: whatever the record, loading after saving it gives a
\* record equal to it in all four fields.
C26_RoundTripAnyRecord ==
    [][ConfigSave(TRUE) => Load(disk', envKey) = Config]_vars

\* Every piece of the text is valid UTF-8.
ValidText(s) == \A i \in DOMAIN s : s[i] # InvalidByte

\* t is s with U+FFFD in the place of each byte that is not valid UTF-8.
Coerced(s, t) ==
    /\ Len(t) = Len(s)
    /\ \A i \in DOMAIN s :
          t[i] = IF s[i] = InvalidByte THEN ReplacementChar ELSE s[i]

\* C26: loading after saving gives the record saved, in all four fields,
\* when its texts are valid UTF-8 (the record ollama,
\* http://localhost:11434, llama3.1 among them); a byte that is not valid
\* UTF-8 comes back as U+FFFD, and nothing else differs.
C26_RoundTripValidText ==
    [][ConfigSave(TRUE) =>
          LET loaded == Load(disk', envKey)
          IN  /\ ~loaded.nil
              /\ loaded.Provider = Config.Provider
              /\ Coerced(Config.OpenAIAPIKey, loaded.OpenAIAPIKey)
              /\ Coerced(Config.OllamaModel, loaded.OllamaModel)
              /\ Coerced(Config.OllamaURL, loaded.OllamaURL)
              /\ (/\ ValidText(Config.OpenAIAPIKey)
                  /\ ValidText(Config.OllamaModel)
                  /\ ValidText(Config.OllamaURL)) => loaded = Config
              /\ Config = MkConfig(ProviderOllama, <<>>, SetupDefaultModel,
                                   DefaultURL) => loaded = Config]_vars

\* C26: the record ollama, http://localhost:11434, llama3.1 was saved and
\* loaded; the credential it carried, taken from the environment with a
\* byte that is not valid UTF-8, came back with U+FFFD in its place.
C26_Witness ==
    /\ envKey = <<"s", InvalidByte>>
    /\ Config = MkConfig(ProviderOllama, <<"s", ReplacementChar>>,
                         SetupDefaultModel, DefaultURL)
    /\ disk = Marshal(Config)

\* No configuration file exists.
FirstRun == ~disk.exists

C28_QuestioningStartsAtZero ==
    [][\A c \in BagToSet(cmds), qs \in QuestionLists :
          (qs # <<>> /\ AnalyzeChangesDone(c, qs)) =>
             /\ State' = StateQuestioning
             /\ Questions' = qs
             /\ CurrentQIdx' = 0]_vars

\* C29: a resize or a tick of the spinner, in whatever state, leaves the
\* session record as it is (state, setup step, diff, history, key context,
\* questions, answers, question index, draft, last error, configuration,
\* and the client, the chosen provider and the text typed as well),
\* dispatches nothing, writes nothing and does not end the program.
C29_ViewEventsChangeNothing ==
    [][(\/ \E size \in WindowSizes : UpdateWindowSizeMsg(size[1], size[2])
        \/ UpdateTickMsg) =>
          /\ UNCHANGED <<State, SetupStep, Diff, History, HistoryCtx,
                         Questions, Answers, CurrentQIdx, CommitMsg, Err,
                         Config>>
          /\ UNCHANGED <<AIClient, SelectedProvider, TextArea>>
          /\ UNCHANGED <<cmds, msgs, disk, status, checks>>]_vars

\* C29: the window was resized in a session that is answering its
\* questions: one answer given, the next one typed.
C29_Witness ==
    /\ Running
    /\ <<Width, Height>> # <<DefaultWidth, DefaultHeight>>
    /\ State = StateQuestioning
    /\ CurrentQIdx = 1
    /\ Answers # <<>>
    /\ TextArea = <<"\n", "q">>

\* C30: when the check reports success, the provider openai gives the
\* remote client with the credential of the record and ollama the local
\* client with its URL and model name; any other provider gives the remote
\* client when the record holds a credential, and otherwise no client: the
\* failure "unknown provider" is handed back as a command, which puts the
\* session in Error with that failure.  In the first three cases the session
\* shows Welcome; a session that meets the failure has never had a client,
\* so it has never shown Welcome.
C30_ClientSelection ==
    [][/\ \A m \in BagToSet(msgs) :
             UpdatePrerequisitesCheckedMsg(m) =>
                LET cfg == m.Config
                    remote == [kind |-> "openai", apiKey |-> cfg.OpenAIAPIKey,
                               baseURL |-> <<>>, model |-> <<>>]
                IN  CASE cfg.Provider = ProviderOpenAI ->
                           AIClient' = remote /\ State' = StateWelcome
                      [] cfg.Provider = ProviderOllama ->
                           /\ AIClient'.kind = "ollama"
                           /\ AIClient'.model = cfg.OllamaModel
                           /\ AIClient'.baseURL =
                                  NormalizeBaseURL(cfg.OllamaURL)
                           /\ State' = StateWelcome
                      [] OTHER ->
                           IF cfg.OpenAIAPIKey # <<>>
                           THEN AIClient' = remote /\ State' = StateWelcome
                           ELSE /\ UNCHANGED <<AIClient, State, Err>>
                                /\ cmds' = cmds (+)
                                      SetToBag({errCmd(ErrUnknownProvider)})
       /\ \A c \in BagToSet(cmds) :
             ErrCmdDone(c) => State' = StateError /\ Err' = c.err
       /\ (\/ Err' = ErrUnknownProvider
           \/ \E c \in BagToSet(cmds') : c.name = "errCmd") =>
             /\ State' # StateWelcome
             /\ AIClient' = NilClient]_vars

\* C30: a record with an unknown provider and no credential passed the
\* check: the session shows Error with "unknown provider" and has no client.
C30_Witness ==
    /\ Running
    /\ State = StateError
    /\ Err = ErrUnknownProvider
    /\ AIClient = NilClient
    /\ Config.Provider \notin {ProviderOpenAI, ProviderOllama}
    /\ Config.OpenAIAPIKey = <<>>
    /\ InFlight = 0

\* C31: in every reachable state a stored failure means the session shows
\* Error: once a failure has been captured, no key press and no late
\* completion message shows another state.
C31_ErrorAbsorbing == Err # NoErr => State = StateError

\* C32: the commit is dispatched at most once in a session: no commit is
\* dispatched while one dispatched earlier is still running, nor in a
\* session that shows the failure of an earlier one.
C32_CommitAtMostOnce ==
    [][Dispatched("commitCmd") =>
          /\ Pending({"commitCmd"}) = 0
          /\ Err # ErrCommit]_vars

\* A command of the name finishes in the step.
Finished(name) == Pending({name})' < Pending({name})

\* C33: a backend call is dispatched only downstream of the interactive
\* choice of Welcome: history analysis only by that choice, question
\* generation only in a step in which a history analysis finishes, message
\* generation only in a step in which a question generation finishes or
\* from Questioning, which is entered only in a step in which a question
\* generation finishes; the manual choice of Welcome and the choice to
\* proceed of DiffTooLarge dispatch the commit and no backend call.
C33_BackendOnlyAfterInteractive ==
    [][/\ Dispatched("analyzeHistoryCmd") =>
             /\ State = StateWelcome
             /\ KeyStep("1") \/ KeyStep("enter")
       /\ Dispatched("analyzeChangesCmd") => Finished("analyzeHistoryCmd")
       /\ Dispatched("generateCommitMsgCmd") =>
             Finished("analyzeChangesCmd") \/ State = StateQuestioning
       /\ (State # StateQuestioning /\ State' = StateQuestioning) =>
             Finished("analyzeChangesCmd")
       /\ (\/ State = StateWelcome /\ KeyStep("2")
           \/ State = StateDiffTooLarge /\ KeyStep("m")
           \/ State = StateDiffTooLarge /\ KeyStep("enter")) =>
             /\ Pending(BackendCmds)' = Pending(BackendCmds)
             /\ Pending({"commitCmd"})' = Pending({"commitCmd"}) + 1]_vars

\* C33: the manual choice was taken in a session that never made the
\* interactive one: the commit is running, the session holds the diff and
\* a client, and no key context, question or backend call.
C33_Witness ==
    /\ Running
    /\ State = StateCommit
    /\ CommitMsg = <<>>
    /\ AIClient # NilClient
    /\ Diff = DiffLimit
    /\ HistoryCtx = <<>>
    /\ Questions = <<>>
    /\ Pending(BackendCmds) = 0
    /\ Pending({"commitCmd"}) = 1

\* C34: in a step that dispatches message generation, every question of
\* the question list has an entry in the answer map, every entry is text
\* that is not empty once trimmed, and every key of the map is a question
\* of the list.
C34_AnswersCoverQuestions ==
    [][Dispatched("generateCommitMsgCmd") =>
          /\ \A i \in DOMAIN Questions' :
                /\ Questions'[i] \in DOMAIN Answers'
                /\ ~Blank(Answers'[Questions'[i]])
          /\ \A q \in DOMAIN Answers' :
                \E i \in DOMAIN Questions' : Questions'[i] = q]_vars

\* The step dispatches a commit without a message.
EmptyCommitDispatched ==
    CopiesIn(commitCmd(<<>>), cmds') > CopiesIn(commitCmd(<<>>), cmds)

\* C35: a draft that message generation hands back is the subject, a blank
\* line and the body, so it is never empty, and the commit dispatched with
\* it runs git with -e and the draft as the message; a commit without a
\* message is dispatched only by the manual choice of Welcome and by
\* DiffTooLarge.
C35_GeneratedDraftNeverEmpty ==
    [][/\ \A c \in BagToSet(cmds), resp \in CommitMessageCompletions :
             (/\ GenerateCommitMsgReturns(c, resp)
              /\ c.client.kind # "nil"
              /\ Parsed(ProviderCall(resp))) =>
                LET result == CommitMessageResponse(resp.choices[1])
                    draft == result.Subject \o <<"\n", "\n">> \o result.Body
                IN  /\ CommitMsg' = draft
                    /\ CommitMsg' # <<>>
                    /\ State' = StateCommit
                    /\ \E g \in BagToSet(cmds') :
                          /\ cmds' = Rest(c) (+) SetToBag({g})
                          /\ g.name = "commitCmd"
                          /\ g.exec = [args |-> <<"commit", "-e", "-m">>,
                                       message |-> draft]
       /\ EmptyCommitDispatched =>
             \/ State = StateWelcome /\ KeyStep("2")
             \/ State = StateDiffTooLarge /\ KeyStep("m")
             \/ State = StateDiffTooLarge /\ KeyStep("enter")]_vars

\* C35: message generation handed back an empty subject and an empty
\* body: the draft is the blank line alone, and the commit runs with -e
\* and that draft as its message.
C35_Witness ==
    /\ Running
    /\ State = StateCommit
    /\ CommitMsg = <<"\n", "\n">>
    /\ \E c \in BagToSet(cmds) :
          /\ c.name = "commitCmd"
          /\ c.exec = [args |-> <<"commit", "-e", "-m">>,
                       message |-> <<"\n", "\n">>]

\* The questions answered, each once, in the order they were generated.
RECURSIVE AnsweredInOrder(_, _)
AnsweredInOrder(qs, seen) ==
    IF qs = <<>> THEN <<>>
    ELSE IF Head(qs) \in seen \/ Head(qs) \notin DOMAIN Answers
    THEN AnsweredInOrder(Tail(qs), seen)
    ELSE <<Head(qs)>> \o AnsweredInOrder(Tail(qs), seen \cup {Head(qs)})

\* C36: the user prompt built for a request is determined by the diff, the
\* history and the answer map: it lists the question/answer pairs in the
\* order in which the questions were generated.
C36_PromptDeterministic ==
    [][\A c \in BagToSet(cmds), order \in RangeOrders(Answers) :
          BuildPrompt(c, order) =>
             prompt' = UserPrompt(GenerateCommitMsgArgs(c, Answers),
                                  AnsweredInOrder(Questions, {}))]_vars

\* The session is at work on the interactive choice: it shows the history
\* analysis, the analysis, a question, or Loading after the last answer.
Interviewing ==
    /\ Running
    /\ \/ State \in {StateHistoryAnalysis, StateAnalysis, StateQuestioning}
       \/ State = StateLoading /\ Questions # <<>>

\* C37: when every unit of work delivers its message and the user answers
\* every question shown, a session at work on the interactive choice comes
\* to show Commit or Error, unless the user ends the program first.
C37_InterviewEnds ==
    Interviewing ~> (State \in {StateCommit, StateError} \/ status = "quit")

\* C38: every backend call dispatched carries a client that is set, and
\* the session shows Setup only with a record that is set, so that no key
\* press in Setup ends the program with a nil record; Welcome is entered
\* only by the message of a check whose record gave a client, which the
\* session then holds; Setup is entered only by a setupRequiredMsg that
\* carries a record, or from Welcome.
C38_CollaboratorsSet ==
    [][/\ \A c \in BagToSet(cmds') :
             c.name \in BackendCmds => c.client # NilClient
       /\ State' = StateSetup => ~Config'.nil
       /\ (State = StateSetup /\ \E k \in Keys : KeyStep(k)) =>
             status' # "crashed"
       /\ (State # StateWelcome /\ State' = StateWelcome) =>
             \E m \in BagToSet(msgs) :
                /\ UpdatePrerequisitesCheckedMsg(m)
                /\ NewClient(m.Config).err = NoErr
                /\ AIClient' = NewClient(m.Config).client
                /\ AIClient' # NilClient
       /\ (State # StateSetup /\ State' = StateSetup) =>
             \/ \E m \in BagToSet(msgs) :
                   UpdateSetupRequiredMsg(m) /\ ~m.Config.nil
             \/ State = StateWelcome /\ KeyStep("c")]_vars

\* C38: the local provider was set up key by key and the check that
\* followed gave its client: the history analysis is running with it.
C38_Witness ==
    /\ Running
    /\ State = StateHistoryAnalysis
    /\ SetupStep = SetupStepOllamaModel
    /\ Config.OllamaModel = SetupDefaultModel
    /\ AIClient = NewOllamaClient(Config.OllamaURL, Config.OllamaModel)
    /\ \E c \in BagToSet(cmds) :
          c.name = "analyzeHistoryCmd" /\ c.client = AIClient

\* The text ends with the pieces of suffix.
EndsWith(s, suffix) ==
    /\ Len(s) >= Len(suffix)
    /\ SubSeq(s, Len(s) - Len(suffix) + 1, Len(s)) = suffix

\* The URL holds the path segment /v1: "/v1" at its end or before a "/".
HasV1Segment(url) ==
    \E i \in DOMAIN url :
       /\ i + 2 <= Len(url)
       /\ SubSeq(url, i, i + 2) = <<"/", "v", "1">>
       /\ i + 2 = Len(url) \/ url[i + 3] = "/"

\* C39: the base URL of the local client ends with "/v1/" whatever the
\* URL of the record (http://localhost:11434/v1/ for the default); a URL
\* that holds the path segment /v1 gets no second one: at most the closing
\* "/" is added; normalising the normalised URL leaves it as it is.
C39_EndpointNormalised ==
    AIClient # NilClient =>
       LET url == Config.OllamaURL
           normalised == AIClient.baseURL
       IN  /\ EndsWith(normalised, <<"/", "v", "1", "/">>)
           /\ url = DefaultURL =>
                 normalised = DefaultURL \o <<"/", "v", "1", "/">>
           /\ HasV1Segment(url) => normalised \in {url, url \o <<"/">>}
           /\ NormalizeBaseURL(normalised) = normalised

====
